---------------------------- MODULE Spec2Model ----------------------------
(***************************************************************************)
(* State-machine model of the TWAP ingestion pipeline of hl-twap-api:      *)
(*                                                                         *)
(*   - the bulk import script (import-all-csv: STAGE_LOAD, VERIFY,         *)
(*     MIGRATE, ADVANCE_SEQUENCE, CLEANUP) against the PostgreSQL tables,  *)
(*     specification SpecImport;                                           *)
(*   - the two CSV generators (node_trades = Variant A, node_fills_by_block*)
(*     = Variant B) and the shared .last_trade_id tracking file,           *)
(*     specification SpecGen;                                              *)
(*   - the TWAP filter of the three ingestion paths, specification         *)
(*     SpecFilter.                                                         *)
(*                                                                         *)
(* The three specifications share one list of variables; each one leaves   *)
(* the variables of the other two at their initial values.                 *)
(***************************************************************************)
EXTENDS Integers, Sequences, FiniteSets, Bags, TLC

VARIABLES
    \* ---- bulk import script and database --------------------------------
    csvFiles,        \* CSV pair of each day partition on disk
    stagingTrades,   \* trades_staging (a bag: the table has no constraints)
    stagingParts,    \* trade_participants_staging (a bag)
    prodTrades,      \* committed ids of trades (primary key: a set)
    prodParts,       \* committed rows of trade_participants (a bag)
    txTrades,        \* trade ids inserted by the open transaction
    txParts,         \* participant rows inserted by the open transaction
    inTx,            \* a transaction is open on the script's connection
    seq,             \* last value of trades_id_seq
    pc,              \* position of the import run
    stagingOnly,     \* --staging-only
    migrateOnly,     \* --migrate-only
    skipSequence,    \* --skip-sequence
    startDate,       \* --start-date (0: not given)
    csvPairs,        \* partitions left after scan, sort and start-date filter
    dayIdx,          \* loop index i of the STAGE_LOAD loop (1-based)
    maxIdBefore,     \* JS value read at the start of the run
    statsErrors,     \* stats.errors
    exitCode,        \* exit code of the last finished run (-1: none yet)
    abortedAt,       \* phase in which the last finished run stopped
    failedDay,       \* day key importDay reported when it threw (0: none)
    runs,            \* number of import runs started
    atStart,         \* durable state when the current run started
    prev,            \* what the previous run did
    \* ---- generators and tracking file -----------------------------------
    trackingFile,    \* content of .last_trade_id
    gpc,             \* position of the generator run
    variant,         \* "A" (node_trades) or "B" (node_fills_by_block)
    startIdGiven,    \* --start-id was passed
    nextTradeId,     \* the module-level counter
    dayNo,           \* index of the day partition being processed
    dayStats,        \* dayStats of the current day
    overallStats,    \* overallStats of the run
    csvOut,          \* the CSV pair of the day partition the run is writing
    emitted,         \* every trade id written to a trades CSV, in emission
                     \* order, over all runs
    gexit,           \* exit code of the last finished generator run
    gruns,           \* number of generator runs started
    ghist,           \* history: runStart (length of emitted when the run
                     \* started), prevAdvanced and prevExit (whether the
                     \* previous run wrote the tracking file, its exit code),
                     \* trackWrites (writes of the tracking file by this run),
                     \* trackAtStart (its content when the run started),
                     \* clean (no run so far used --start-id and every
                     \* finished one exited with code 0)
    \* ---- TWAP filter ----------------------------------------------------
    fpath,           \* ingestion path the record goes through
    frecord,         \* the participants of the reconstructed trade
    fresult,         \* "pending", "emitted" or "dropped"
    \* ---- import runs side by side --------------------------------------
    procs,           \* per import process: its phase, mode and loop index
    \* ---- direct insertion (daily sync, direct import, POST /api/trades)
    ins,             \* the insertion under way: path, position, batch, counts
    \* ---- leaderboard aggregator ----------------------------------------
    lb,              \* per-user TWAP volume, leaderboard_stats, last run
    \* ---- CSV rows of the generators ------------------------------------
    csv              \* one field, record or block, and what is written for it

importVars == <<csvFiles, stagingTrades, stagingParts, prodTrades, prodParts,
                txTrades, txParts, inTx, seq, pc, stagingOnly, migrateOnly,
                skipSequence, startDate, csvPairs, dayIdx, maxIdBefore,
                statsErrors, exitCode, abortedAt, failedDay, runs, atStart,
                prev>>
genVars == <<trackingFile, gpc, variant, startIdGiven, nextTradeId, dayNo,
             dayStats, overallStats, csvOut, emitted, gexit, gruns, ghist>>
filterVars == <<fpath, frecord, fresult>>
concVars == <<procs>>
insVars == <<ins>>
lbVars == <<lb>>
csvVars == <<csv>>
vars == <<importVars, genVars, filterVars, concVars, insVars, lbVars,
          csvVars>>

\* What the actions of one part leave alone.
notImportVars == <<genVars, filterVars, concVars, insVars, lbVars, csvVars>>
notGenVars == <<importVars, filterVars, concVars, insVars, lbVars, csvVars>>
notFilterVars == <<importVars, genVars, concVars, insVars, lbVars, csvVars>>
notRunsVars == <<genVars, filterVars, insVars, lbVars, csvVars>>
notInsVars == <<genVars, filterVars, concVars, lbVars, csvVars>>
notLbVars == <<importVars, genVars, filterVars, concVars, insVars, csvVars>>
notCsvVars == <<importVars, genVars, filterVars, concVars, insVars, lbVars>>

-----------------------------------------------------------------------------
(* Bounds of the model.                                                    *)

\* Largest id the initial states draw from; 10 or more, so that ids with
\* different numbers of decimal digits meet.
MaxId == 10
\* Import runs per behaviour.
MaxRuns == 2

-----------------------------------------------------------------------------
(* Small helpers.                                                          *)

MaxOf(S) == CHOOSE x \in S : \A y \in S : y <= x
MinOf(S) == CHOOSE x \in S : \A y \in S : x <= y
Range(s) == {s[i] : i \in DOMAIN s}

-----------------------------------------------------------------------------
(* JavaScript values as the pg driver hands them to the script.  The id    *)
(* columns are BIGINT (BIGSERIAL; the staging tables have the columns of   *)
(* the production tables, without constraints); node-postgres returns int8 *)
(* as a string of decimal digits, and MIN/MAX of an empty table as null.   *)

JsNull == [t |-> "null", v |-> 0]
JsNum(n) == [t |-> "number", v |-> n]
JsStr(n) == [t |-> "string", v |-> n]    \* the decimal text of n

RECURSIVE DecStr(_)
DecStr(n) == IF n < 10 THEN <<n>> ELSE DecStr(n \div 10) \o <<n % 10>>

\* s <= t on strings: code-unit (lexicographic) order.
LexLe(s, t) ==
    LET n == IF Len(s) < Len(t) THEN Len(s) ELSE Len(t)
        diff == {i \in 1..n : s[i] # t[i]}
    IN  IF diff = {} THEN Len(s) <= Len(t)
        ELSE s[MinOf(diff)] < t[MinOf(diff)]

JsTruthy(a) == CASE a.t = "null" -> FALSE
                 [] a.t = "number" -> a.v # 0
                 [] a.t = "string" -> TRUE
JsOr(a, b) == IF JsTruthy(a) THEN a ELSE b

\* a <= b: two strings compare as strings, anything else as numbers.
JsLe(a, b) == IF a.t = "string" /\ b.t = "string"
              THEN LexLe(DecStr(a.v), DecStr(b.v))
              ELSE a.v <= b.v

\* SELECT MAX(id) / MIN(id) over a set of BIGINT ids.
PgMax(ids) == IF ids = {} THEN JsNull ELSE JsStr(MaxOf(ids))
PgMin(ids) == IF ids = {} THEN JsNull ELSE JsStr(MinOf(ids))


-----------------------------------------------------------------------------
(* The CSV pairs on disk (the import script only reads them).  Partition 1 *)
(* was written by the node_trades generator, partition 2 afterwards by the *)
(* node_fills_by_block generator, so its id is the next one.               *)

Partitions == {1, 2}
DayName(k) == csvFiles[k].dayName
SourceOf(k) == IF k = 1 THEN "node_trades" ELSE "node_fills_by_block"
Days == {DayName(k) : k \in Partitions}

\* The day keys of partitions 1 and 2: readdirSync and the two scans find
\* the partitions in an order that need not be the order of the days.
DayKeys == {<<1, 2>>, <<2, 1>>}

CsvPair(base, k, day) ==
    [dayName |-> day,
     trades |-> {[id |-> base + k - 1, part |-> k]},
     participants |-> {[trade_id |-> base + k - 1, part |-> k, n |-> j] :
                          j \in 1..2}]

\* findCsvPairs over both source directories, node_trades first.
findCsvPairs == <<1, 2>>

\* csvPairs.sort((a, b) => a.dayName.localeCompare(b.dayName)): stable.
RECURSIVE SortByDay(_)
SortByDay(s) ==
    IF s = <<>> THEN <<>>
    ELSE LET m == MinOf({DayName(s[i]) : i \in DOMAIN s})
             first == MinOf({i \in DOMAIN s : DayName(s[i]) = m})
             rest == [j \in 1..(Len(s) - 1) |->
                         IF j < first THEN s[j] ELSE s[j + 1]]
         IN  <<s[first]>> \o SortByDay(rest)

\* Variant of FilterFrom that drops the start date itself.
FilterAfter(s, d) == SelectSeq(s, LAMBDA k : DayName(k) > d)

\* csvPairs.filter(pair => pair.dayName >= startDate)
FilterFrom(s, d) == SelectSeq(s, LAMBDA k : DayName(k) >= d)

-----------------------------------------------------------------------------
(* Database helpers.                                                       *)

StagingIds == {r.id : r \in BagToSet(stagingTrades)}
AllCsvTrades == UNION {csvFiles[k].trades : k \in Partitions}
AllCsvParticipants == UNION {csvFiles[k].participants : k \in Partitions}

\* INSERT INTO trades ... SELECT ... FROM trades_staging violates the
\* primary key when an id is staged twice or is already in production.
PrimaryKeyViolation ==
    \/ \E r \in BagToSet(stagingTrades) : CopiesIn(r, stagingTrades) > 1
    \/ \E r1, r2 \in BagToSet(stagingTrades) : r1 # r2 /\ r1.id = r2.id
    \/ StagingIds \cap prodTrades # {}

\* trade_participants.trade_id REFERENCES trades(id)
ForeignKeyViolation ==
    \E r \in BagToSet(stagingParts) : r.trade_id \notin (prodTrades \cup txTrades)

Snapshot == [stagingTrades |-> stagingTrades, stagingParts |-> stagingParts,
             prodTrades |-> prodTrades, prodParts |-> prodParts,
             seq |-> seq, trackingFile |-> trackingFile]

NoRun == [stagingOnly |-> FALSE, startDate |-> 0, abortedAt |-> "none",
          failedDay |-> 0, exitCode |-> -1, stagingWasEmpty |-> FALSE]

LastRun == [stagingOnly |-> stagingOnly, startDate |-> startDate,
            abortedAt |-> abortedAt, failedDay |-> failedDay,
            exitCode |-> exitCode,
            stagingWasEmpty |-> (atStart.stagingTrades = EmptyBag
                                 /\ atStart.stagingParts = EmptyBag)]

\* The ids and production contents the initial states draw from.
BaseIds == {1, MaxId \div 2, MaxId}
ProdMenu == {{}, {MaxId - 1}, {MaxId}, {MaxId \div 2, MaxId}}

ParticipantsOf(ids) == SetToBag({[trade_id |-> i, part |-> 0, n |-> j] :
                                    i \in ids, j \in 1..2})

\* process.exit(code); the connection closes, which ends an open transaction.
Exit(code, phase, day) ==
    /\ pc' = "exited"
    /\ exitCode' = code
    /\ abortedAt' = phase
    /\ failedDay' = day
    /\ inTx' = FALSE
    /\ txTrades' = {}
    /\ txParts' = EmptyBag

runFlags == <<stagingOnly, migrateOnly, skipSequence, startDate>>
dbTables == <<stagingTrades, stagingParts, prodTrades, prodParts, seq>>
txState == <<txTrades, txParts, inTx>>
exitInfo == <<exitCode, abortedAt, failedDay>>


-----------------------------------------------------------------------------
(* The bulk import script: main().                                         *)

\* Argument parsing, validation, SCAN (scan, sort, start-date filter) and
\* the connection to the database.
StartRun(so, mo, skip, sd) ==
    /\ pc \in {"idle", "exited"}
    /\ runs < MaxRuns
    /\ runs' = runs + 1
    /\ stagingOnly' = so
    /\ migrateOnly' = mo
    /\ skipSequence' = skip
    /\ startDate' = sd
    /\ statsErrors' = 0
    /\ dayIdx' = 1
    /\ maxIdBefore' = JsNull
    /\ atStart' = Snapshot
    /\ prev' = IF runs = 0 THEN NoRun ELSE LastRun
    /\ LET sorted == SortByDay(findCsvPairs)
           kept == IF sd # 0 THEN FilterFrom(sorted, sd) ELSE sorted
       IN  IF so /\ mo
           THEN \* mutually exclusive flags
                /\ csvPairs' = <<>>
                /\ Exit(1, "args", 0)
           ELSE IF mo
           THEN /\ csvPairs' = <<>>
                /\ pc' = "connected"
                /\ UNCHANGED <<txState, exitInfo>>
           ELSE IF kept = <<>>
           THEN \* no CSV files found on or after the start date
                /\ csvPairs' = kept
                /\ Exit(1, "scan", 0)
           ELSE /\ csvPairs' = kept
                /\ pc' = "connected"
                /\ UNCHANGED <<txState, exitInfo>>
    /\ UNCHANGED <<csvFiles, dbTables>>
    /\ UNCHANGED notImportVars

\* SELECT MAX(id) FROM trades; maxIdBefore = beforeRows[0]?.max || 0
QueryMaxBefore ==
    /\ pc = "connected"
    /\ maxIdBefore' = JsOr(PgMax(prodTrades), JsNum(0))
    /\ pc' = IF migrateOnly THEN "verify" ELSE "copy_trades"
    /\ UNCHANGED <<csvFiles, dbTables, txState, runFlags, csvPairs, dayIdx,
                   statsErrors, exitInfo, runs, atStart, prev>>
    /\ UNCHANGED notImportVars

\* Variant of CopyTrades in which a failed day is skipped and the loop goes
\* on with the next partition.
CopyTradesSkippingFailedDay(ok) ==
    /\ pc = "copy_trades"
    /\ IF ok
       THEN /\ stagingTrades' =
                  stagingTrades (+) SetToBag(csvFiles[csvPairs[dayIdx]].trades)
            /\ pc' = "copy_participants"
            /\ UNCHANGED <<txState, exitInfo, statsErrors, dayIdx>>
       ELSE /\ statsErrors' = statsErrors + 1
            /\ IF dayIdx < Len(csvPairs)
               THEN /\ dayIdx' = dayIdx + 1
                    /\ pc' = "copy_trades"
                    /\ UNCHANGED <<txState, exitInfo>>
               ELSE /\ Exit(1, "stage_load", DayName(csvPairs[dayIdx]))
                    /\ UNCHANGED dayIdx
            /\ UNCHANGED stagingTrades
    /\ UNCHANGED <<csvFiles, stagingParts, prodTrades, prodParts, seq, runFlags,
                   csvPairs, maxIdBefore, runs, atStart, prev>>
    /\ UNCHANGED notImportVars

\* importDay, first half: COPY trades_staging FROM STDIN.  A COPY is one
\* statement: it appends every row of the file or, failing, none.
CopyTrades(ok) ==
    /\ pc = "copy_trades"
    /\ IF ok
       THEN /\ stagingTrades' =
                  stagingTrades (+) SetToBag(csvFiles[csvPairs[dayIdx]].trades)
            /\ pc' = "copy_participants"
            /\ UNCHANGED <<txState, exitInfo, statsErrors>>
       ELSE /\ statsErrors' = statsErrors + 1
            /\ Exit(1, "stage_load", DayName(csvPairs[dayIdx]))
            /\ UNCHANGED stagingTrades
    /\ UNCHANGED <<csvFiles, stagingParts, prodTrades, prodParts, seq, runFlags,
                   csvPairs, dayIdx, maxIdBefore, runs, atStart, prev>>
    /\ UNCHANGED notImportVars

\* importDay, second half: COPY trade_participants_staging FROM STDIN, then
\* the next iteration of the loop over csvPairs.
CopyParticipants(ok) ==
    /\ pc = "copy_participants"
    /\ IF ok
       THEN /\ stagingParts' =
                  stagingParts (+) SetToBag(csvFiles[csvPairs[dayIdx]].participants)
            /\ dayIdx' = dayIdx + 1
            /\ pc' = IF dayIdx < Len(csvPairs) THEN "copy_trades" ELSE "verify"
            /\ UNCHANGED <<txState, exitInfo, statsErrors>>
       ELSE /\ statsErrors' = statsErrors + 1
            /\ Exit(1, "stage_load", DayName(csvPairs[dayIdx]))
            /\ UNCHANGED <<stagingParts, dayIdx>>
    /\ UNCHANGED <<csvFiles, stagingTrades, prodTrades, prodParts, seq, runFlags,
                   csvPairs, maxIdBefore, runs, atStart, prev>>
    /\ UNCHANGED notImportVars

\* if (stagingMinId && stagingMinId <= maxIdBefore)
IdConflict(stagingMinId, maxBefore) ==
    JsTruthy(stagingMinId) /\ JsLe(stagingMinId, maxBefore)

\* Variant of Verify without the stop of a --staging-only run.
VerifyWithoutStop ==
    /\ pc = "verify"
    /\ IF IdConflict(PgMin(StagingIds), maxIdBefore)
       THEN Exit(1, "verify", 0)
       ELSE /\ pc' = "begin"
            /\ UNCHANGED <<txState, exitInfo>>
    /\ UNCHANGED <<csvFiles, dbTables, runFlags, csvPairs, dayIdx, maxIdBefore,
                   statsErrors, runs, atStart, prev>>
    /\ UNCHANGED notImportVars

\* VERIFY: SELECT COUNT(*), MIN(id), MAX(id) FROM trades_staging, the
\* conflict check, and the stop of a --staging-only run.
Verify ==
    /\ pc = "verify"
    /\ IF IdConflict(PgMin(StagingIds), maxIdBefore)
       THEN Exit(1, "verify", 0)
       ELSE IF stagingOnly
       THEN Exit(0, "staged", 0)
       ELSE /\ pc' = "begin"
            /\ UNCHANGED <<txState, exitInfo>>
    /\ UNCHANGED <<csvFiles, dbTables, runFlags, csvPairs, dayIdx, maxIdBefore,
                   statsErrors, runs, atStart, prev>>
    /\ UNCHANGED notImportVars

\* BEGIN
Begin ==
    /\ pc = "begin"
    /\ inTx' = TRUE
    /\ pc' = "insert_trades"
    /\ UNCHANGED <<csvFiles, dbTables, txTrades, txParts, runFlags, csvPairs,
                   dayIdx, maxIdBefore, statsErrors, exitInfo, runs, atStart,
                   prev>>
    /\ UNCHANGED notImportVars

\* Variant of InsertTrades whose statement skips the ids that production
\* already holds (ON CONFLICT DO NOTHING) instead of failing on them.
InsertTradesSkippingConflicts(ok) ==
    /\ pc = "insert_trades"
    /\ IF ok
       THEN /\ txTrades' = StagingIds \ prodTrades
            /\ pc' = "insert_participants"
            /\ UNCHANGED <<txParts, inTx, exitInfo>>
       ELSE Exit(1, "migrate", 0)
    /\ UNCHANGED <<csvFiles, dbTables, runFlags, csvPairs, dayIdx, maxIdBefore,
                   statsErrors, runs, atStart, prev>>
    /\ UNCHANGED notImportVars

\* INSERT INTO trades ... SELECT ... FROM trades_staging, inside the
\* transaction; on an error: ROLLBACK, rethrow, process.exit(1).
InsertTrades(ok) ==
    /\ pc = "insert_trades"
    /\ IF ok /\ ~PrimaryKeyViolation
       THEN /\ txTrades' = StagingIds
            /\ pc' = "insert_participants"
            /\ UNCHANGED <<txParts, inTx, exitInfo>>
       ELSE Exit(1, "migrate", 0)
    /\ UNCHANGED <<csvFiles, dbTables, runFlags, csvPairs, dayIdx, maxIdBefore,
                   statsErrors, runs, atStart, prev>>
    /\ UNCHANGED notImportVars

\* Variant of InsertParticipants without the enclosing transaction: when
\* the statement fails, the trades inserted before it stay in production.
InsertParticipantsAutocommit(ok) ==
    /\ pc = "insert_participants"
    /\ IF ok /\ ~ForeignKeyViolation
       THEN /\ txParts' = stagingParts
            /\ pc' = "commit"
            /\ UNCHANGED <<txTrades, inTx, exitInfo, prodTrades>>
       ELSE /\ prodTrades' = prodTrades \cup txTrades
            /\ Exit(1, "migrate", 0)
    /\ UNCHANGED <<csvFiles, stagingTrades, stagingParts, prodParts, seq,
                   runFlags, csvPairs, dayIdx, maxIdBefore, statsErrors, runs,
                   atStart, prev>>
    /\ UNCHANGED notImportVars

\* INSERT INTO trade_participants ... SELECT ... FROM
\* trade_participants_staging, inside the transaction.
InsertParticipants(ok) ==
    /\ pc = "insert_participants"
    /\ IF ok /\ ~ForeignKeyViolation
       THEN /\ txParts' = stagingParts
            /\ pc' = "commit"
            /\ UNCHANGED <<txTrades, inTx, exitInfo>>
       ELSE Exit(1, "migrate", 0)
    /\ UNCHANGED <<csvFiles, dbTables, runFlags, csvPairs, dayIdx, maxIdBefore,
                   statsErrors, runs, atStart, prev>>
    /\ UNCHANGED notImportVars

\* Variant of Commit that empties the staging tables when the commit fails.
CommitTruncatesOnFailure(ok) ==
    /\ pc = "commit"
    /\ IF ok
       THEN /\ prodTrades' = prodTrades \cup txTrades
            /\ prodParts' = prodParts (+) txParts
            /\ txTrades' = {}
            /\ txParts' = EmptyBag
            /\ inTx' = FALSE
            /\ pc' = "advance"
            /\ UNCHANGED <<exitInfo, stagingTrades, stagingParts>>
       ELSE /\ Exit(1, "migrate", 0)
            /\ stagingTrades' = EmptyBag
            /\ stagingParts' = EmptyBag
            /\ UNCHANGED <<prodTrades, prodParts>>
    /\ UNCHANGED <<csvFiles, seq, runFlags,
                   csvPairs, dayIdx, maxIdBefore, statsErrors, runs, atStart,
                   prev>>
    /\ UNCHANGED notImportVars

\* COMMIT: the rows of the transaction become visible to other sessions.
Commit(ok) ==
    /\ pc = "commit"
    /\ IF ok
       THEN /\ prodTrades' = prodTrades \cup txTrades
            /\ prodParts' = prodParts (+) txParts
            /\ txTrades' = {}
            /\ txParts' = EmptyBag
            /\ inTx' = FALSE
            /\ pc' = "advance"
            /\ UNCHANGED exitInfo
       ELSE /\ Exit(1, "migrate", 0)
            /\ UNCHANGED <<prodTrades, prodParts>>
    /\ UNCHANGED <<csvFiles, stagingTrades, stagingParts, seq, runFlags,
                   csvPairs, dayIdx, maxIdBefore, statsErrors, runs, atStart,
                   prev>>
    /\ UNCHANGED notImportVars

\* Variant of AdvanceSequence that sets the sequence to the maximum read
\* before the import instead of the one read after it.
AdvanceSequenceToMaxBefore ==
    /\ pc = "advance"
    /\ IF skipSequence
       THEN /\ pc' = "cleanup"
            /\ UNCHANGED <<seq, txState, exitInfo>>
       ELSE IF maxIdBefore.v < 1
       THEN /\ Exit(1, "advance", 0)
            /\ UNCHANGED seq
       ELSE /\ seq' = maxIdBefore.v
            /\ pc' = "cleanup"
            /\ UNCHANGED <<txState, exitInfo>>
    /\ UNCHANGED <<csvFiles, stagingTrades, stagingParts, prodTrades, prodParts,
                   runFlags, csvPairs, dayIdx, maxIdBefore, statsErrors, runs,
                   atStart, prev>>
    /\ UNCHANGED notImportVars

\* ADVANCE_SEQUENCE: SELECT MAX(id) FROM trades; maxIdAfter = max || 0;
\* unless --skip-sequence, SELECT setval('trades_id_seq', maxIdAfter), which
\* the server rejects below the sequence's minimum of 1.
AdvanceSequence ==
    /\ pc = "advance"
    /\ LET maxIdAfter == JsOr(PgMax(prodTrades), JsNum(0))
       IN  IF skipSequence
           THEN /\ pc' = "cleanup"
                /\ UNCHANGED <<seq, txState, exitInfo>>
           ELSE IF maxIdAfter.v < 1
           THEN /\ Exit(1, "advance", 0)
                /\ UNCHANGED seq
           ELSE /\ seq' = maxIdAfter.v
                /\ pc' = "cleanup"
                /\ UNCHANGED <<txState, exitInfo>>
    /\ UNCHANGED <<csvFiles, stagingTrades, stagingParts, prodTrades, prodParts,
                   runFlags, csvPairs, dayIdx, maxIdBefore, statsErrors, runs,
                   atStart, prev>>
    /\ UNCHANGED notImportVars

\* CLEANUP: TRUNCATE trades_staging, trade_participants_staging; the run
\* ends with exit code 0.
Cleanup ==
    /\ pc = "cleanup"
    /\ stagingTrades' = EmptyBag
    /\ stagingParts' = EmptyBag
    /\ Exit(0, "none", 0)
    /\ UNCHANGED <<csvFiles, prodTrades, prodParts, seq, runFlags, csvPairs,
                   dayIdx, maxIdBefore, statsErrors, runs, atStart, prev>>
    /\ UNCHANGED notImportVars

\* The process is killed (SIGINT, SIGKILL): nothing more is executed and the
\* server rolls back the open transaction.
Kill ==
    /\ pc \notin {"idle", "exited"}
    /\ Exit(1, "killed", 0)
    /\ UNCHANGED <<csvFiles, dbTables, runFlags, csvPairs, dayIdx, maxIdBefore,
                   statsErrors, runs, atStart, prev>>
    /\ UNCHANGED notImportVars

InitImport ==
    /\ \E base \in BaseIds, days \in DayKeys :
          csvFiles = [k \in Partitions |-> CsvPair(base, k, days[k])]
    /\ stagingTrades = EmptyBag
    /\ stagingParts = EmptyBag
    /\ prodTrades \in ProdMenu
    /\ prodParts = ParticipantsOf(prodTrades)
    /\ txTrades = {}
    /\ txParts = EmptyBag
    /\ inTx = FALSE
    /\ seq = MaxOf(prodTrades \cup {0})
    /\ pc = "idle"
    /\ stagingOnly = FALSE
    /\ migrateOnly = FALSE
    /\ skipSequence = FALSE
    /\ startDate = 0
    /\ csvPairs = <<>>
    /\ dayIdx = 1
    /\ maxIdBefore = JsNull
    /\ statsErrors = 0
    /\ exitCode = -1
    /\ abortedAt = "none"
    /\ failedDay = 0
    /\ runs = 0
    /\ prev = NoRun

NextImport ==
    \/ \E so, mo, skip \in BOOLEAN, sd \in {0} \cup Days \cup {MaxOf(Days) + 1} :
          StartRun(so, mo, skip, sd)
    \/ QueryMaxBefore
    \/ \E ok \in BOOLEAN : CopyTrades(ok)
    \/ \E ok \in BOOLEAN : CopyParticipants(ok)
    \/ Verify
    \/ Begin
    \/ \E ok \in BOOLEAN : InsertTrades(ok)
    \/ \E ok \in BOOLEAN : InsertParticipants(ok)
    \/ \E ok \in BOOLEAN : Commit(ok)
    \/ AdvanceSequence
    \/ Cleanup
    \/ Kill


-----------------------------------------------------------------------------
(* The CSV generators: generate-node-trades-csv (Variant A) and            *)
(* generate-node-fills-by-block-csv (Variant B).                           *)

\* Day partitions a generator run finds in its source directory.
NDays == 2
\* Input lines per day partition.
MaxLines == 1
\* Generator runs per behaviour.
MaxGenRuns == 2
\* Elements of side_info (Variant A) and events of a block (Variant B).
MaxElems == 2
\* Largest value of --start-id and of the initial tracking file.
MaxStartId == 2

Variants == {"A", "B"}
TwapKinds == {"int", "null", "absent"}   \* twap_id: an integer, null, or no such key

\* .last_trade_id: absent, or a text whose parseInt is n (n = 0 stands for
\* every text that is not a positive integer).
NoTrackingFile == [exists |-> FALSE, n |-> 0]
TrackingText(n) == [exists |-> TRUE, n |-> n]

NoFile == [exists |-> FALSE, rows |-> <<>>]
EmptyFile == [exists |-> TRUE, rows |-> <<>>]
NoPair == [trades |-> NoFile, participants |-> NoFile]

\* The CSV pair of a day as an earlier run left it on disk.
LeftPair == [trades |-> [exists |-> TRUE, rows |-> <<0>>],
             participants |-> [exists |-> TRUE,
                               rows |-> <<[trade_id |-> 0, n |-> 1]>>]]

ZeroStats == [linesRead |-> 0, tradesWritten |-> 0, tradesSkipped |-> 0,
              errors |-> 0]

\* ---- Variant A: one trade record per line --------------------------------

\* An element of side_info: JSON null, or an object with its twap_id and
\* whether one of the fields written to the participant row is a value whose
\* String() conversion throws (an object with a non-callable toString).
NullElem == [isNull |-> TRUE, twap |-> "absent", bad |-> FALSE]
SideInfoElems == {NullElem} \cup
    {[isNull |-> FALSE, twap |-> t, bad |-> b] : t \in TwapKinds, b \in BOOLEAN}

SeqsUpTo(S, n) == UNION {[1..k -> S] : k \in 1..n}

\* A line: not JSON, a record without side_info (or with an empty one), or a
\* record; tradeBad: a trade-level field whose String() conversion throws.
LinesA ==
    {[kind |-> "badjson", sideInfo |-> <<>>, tradeBad |-> FALSE],
     [kind |-> "nosideinfo", sideInfo |-> <<>>, tradeBad |-> FALSE]} \cup
    {[kind |-> "record", sideInfo |-> si, tradeBad |-> tb] :
        si \in SeqsUpTo(SideInfoElems, MaxElems), tb \in BOOLEAN}

\* tradeHasTwapId of Variant A: sideInfo.some(si => si.twap_id !== null &&
\* si.twap_id !== undefined).  "throws": the callback met a null element
\* before any element with a twap_id.
RECURSIVE SomeTwapA(_, _)
SomeTwapA(si, i) ==
    IF i > Len(si) THEN "false"
    ELSE IF si[i].isNull THEN "throws"
    ELSE IF si[i].twap = "int" THEN "true"
    ELSE SomeTwapA(si, i + 1)

tradeHasTwapIdA(si) == SomeTwapA(si, 1)

\* The participant loop: rows written before the loop ends or throws.
RECURSIVE WriteParticipants(_, _, _, _)
WriteParticipants(elems, i, id, acc) ==
    IF i > Len(elems) THEN [rows |-> acc, threw |-> FALSE]
    ELSE IF elems[i].isNull \/ elems[i].bad THEN [rows |-> acc, threw |-> TRUE]
    ELSE WriteParticipants(elems, i + 1, id,
                           Append(acc, [trade_id |-> id, n |-> i]))

\* What processing one line does: the rows appended to the two CSVs, the
\* counter afterwards and the changes of the statistics.
Effect(tr, ps, nid, sk, er) ==
    [trades |-> tr, participants |-> ps, nextTradeId |-> nid,
     skipped |-> sk, errors |-> er]

\* Variant of ProcessLineA that takes the id before the filter is applied.
ProcessLineAIdFirst(line, nid) ==
    IF line.kind = "badjson" THEN Effect(<<>>, <<>>, nid, 0, 1)
    ELSE IF line.kind = "nosideinfo" THEN Effect(<<>>, <<>>, nid, 0, 0)
    ELSE LET has == tradeHasTwapIdA(line.sideInfo)
         IN  IF has = "throws" THEN Effect(<<>>, <<>>, nid + 1, 0, 1)
             ELSE IF has = "false" THEN Effect(<<>>, <<>>, nid + 1, 1, 0)
             ELSE IF line.tradeBad THEN Effect(<<>>, <<>>, nid + 1, 0, 1)
                  ELSE LET w == WriteParticipants(line.sideInfo, 1, nid, <<>>)
                       IN  Effect(<<nid>>, w.rows, nid + 1, 0,
                                  IF w.threw THEN 1 ELSE 0)

ProcessLineA(line, nid) ==
    IF line.kind = "badjson" THEN Effect(<<>>, <<>>, nid, 0, 1)
    ELSE IF line.kind = "nosideinfo" THEN Effect(<<>>, <<>>, nid, 0, 0)
    ELSE LET has == tradeHasTwapIdA(line.sideInfo)
         IN  IF has = "throws" THEN Effect(<<>>, <<>>, nid, 0, 1)
             ELSE IF has = "false" THEN Effect(<<>>, <<>>, nid, 1, 0)
             ELSE \* tradeId = nextTradeId++
                  IF line.tradeBad THEN Effect(<<>>, <<>>, nid + 1, 0, 1)
                  ELSE LET w == WriteParticipants(line.sideInfo, 1, nid, <<>>)
                       IN  Effect(<<nid>>, w.rows, nid + 1, 0,
                                  IF w.threw THEN 1 ELSE 0)


\* ---- Variant B: one block of events per line -----------------------------

\* Raw trade ids of the events of a block; 0 stands for a missing or zero
\* tid (!trade.tid) or a missing user address: the event is dropped.
Tids == {0, 77, 78}

\* An event [user_address, trade]: JSON null (or a pair without trade), or
\* an event with its tid, its twapId and what is wrong with it: "time" (an
\* invalid time, on which toISOString throws) or "field" (a field of the
\* participant row whose String() conversion throws).
NullEvent == [isNull |-> TRUE, tid |-> 0, twap |-> "absent", bad |-> "none"]
Events == {NullEvent} \cup
    {[isNull |-> FALSE, tid |-> t, twap |-> tw, bad |-> b] :
        t \in Tids, tw \in TwapKinds, b \in {"none", "time", "field"}}

LinesB ==
    {[kind |-> "badjson", events |-> <<>>],
     [kind |-> "noevents", events |-> <<>>]} \cup
    {[kind |-> "block", events |-> ev] : ev \in SeqsUpTo(Events, MaxElems)}

\* tradesByTid: the tids in order of first appearance (the iteration order
\* of a Map), each with its events in input order.
RECURSIVE TidOrder(_, _, _)
TidOrder(ev, i, acc) ==
    IF i > Len(ev) THEN acc
    ELSE IF ev[i].tid = 0 \/ ev[i].tid \in Range(acc)
         THEN TidOrder(ev, i + 1, acc)
         ELSE TidOrder(ev, i + 1, Append(acc, ev[i].tid))

GroupOf(ev, tid) == SelectSeq(ev, LAMBDA e : e.tid = tid)

\* tradeHasTwapId of Variant B: participants.some(([_, trade]) =>
\* trade.twapId !== null && trade.twapId !== undefined)
tradeHasTwapIdB(participants) ==
    \E i \in DOMAIN participants : participants[i].twap = "int"

\* The loop over tradesByTid, from group g on; eff is what the line has done
\* so far.  A throw ends the processing of the line with one error counted.
RECURSIVE ProcessGroups(_, _, _, _)
ProcessGroups(ev, order, g, eff) ==
    IF g > Len(order) THEN eff
    ELSE LET participants == GroupOf(ev, order[g])
             id == eff.nextTradeId
         IN  IF ~tradeHasTwapIdB(participants)
             THEN ProcessGroups(ev, order, g + 1,
                                [eff EXCEPT !.skipped = @ + 1])
             ELSE IF participants[1].bad = "time"
             THEN \* the id is taken, toISOString throws
                  [eff EXCEPT !.nextTradeId = id + 1, !.errors = 1]
             ELSE LET w == WriteParticipants(
                               [i \in DOMAIN participants |->
                                   [isNull |-> FALSE,
                                    twap |-> participants[i].twap,
                                    bad |-> participants[i].bad = "field"]],
                               1, id, <<>>)
                      next == [eff EXCEPT
                                 !.trades = Append(@, id),
                                 !.participants = @ \o w.rows,
                                 !.nextTradeId = id + 1]
                  IN  IF w.threw THEN [next EXCEPT !.errors = 1]
                      ELSE ProcessGroups(ev, order, g + 1, next)

ProcessLineB(line, nid) ==
    IF line.kind = "badjson" THEN Effect(<<>>, <<>>, nid, 0, 1)
    ELSE IF line.kind = "noevents" THEN Effect(<<>>, <<>>, nid, 0, 0)
    ELSE IF \E i \in DOMAIN line.events : line.events[i].isNull
         THEN \* destructuring the event, or reading trade.tid, throws
              Effect(<<>>, <<>>, nid, 0, 1)
         ELSE ProcessGroups(line.events, TidOrder(line.events, 1, <<>>), 1,
                            Effect(<<>>, <<>>, nid, 0, 0))


\* ---- main() of a generator ------------------------------------------------

\* The lines the hour files of a run hold (members of LinesA and LinesB):
\* one of every outcome of processFile, on records of two participants.
PlainA(t) == [isNull |-> FALSE, twap |-> t, bad |-> FALSE]
BadA(t) == [isNull |-> FALSE, twap |-> t, bad |-> TRUE]
RecordA(si, tb) == [kind |-> "record", sideInfo |-> si, tradeBad |-> tb]
DayLinesA ==
    {[kind |-> "badjson", sideInfo |-> <<>>, tradeBad |-> FALSE],
     [kind |-> "nosideinfo", sideInfo |-> <<>>, tradeBad |-> FALSE],
     RecordA(<<PlainA("int"), PlainA("null")>>, FALSE),
     RecordA(<<PlainA("null"), PlainA("null")>>, FALSE),
     RecordA(<<PlainA("int"), PlainA("null")>>, TRUE),
     RecordA(<<BadA("int"), PlainA("null")>>, FALSE),
     RecordA(<<PlainA("int"), BadA("null")>>, FALSE)}

EventB(tid, t, b) == [isNull |-> FALSE, tid |-> tid, twap |-> t, bad |-> b]
BlockB(ev) == [kind |-> "block", events |-> ev]
DayLinesB ==
    {[kind |-> "badjson", events |-> <<>>],
     [kind |-> "noevents", events |-> <<>>],
     BlockB(<<EventB(77, "int", "none"), EventB(77, "null", "none")>>),
     BlockB(<<EventB(77, "null", "none"), EventB(77, "null", "none")>>),
     BlockB(<<EventB(77, "int", "none"), EventB(78, "int", "none")>>),
     BlockB(<<EventB(77, "int", "time"), EventB(77, "null", "none")>>),
     BlockB(<<EventB(77, "int", "field"), EventB(77, "null", "none")>>),
     BlockB(<<EventB(77, "int", "none"), EventB(77, "null", "field")>>)}

\* The trades of a line that satisfy the TWAP filter: tradeHasTwapId holds
\* of the record (Variant A), of the events of one tid (Variant B).
TradesPassing(v, line) ==
    IF v = "A"
    THEN IF line.kind = "record"
            /\ \E i \in DOMAIN line.sideInfo :
                  ~line.sideInfo[i].isNull /\ line.sideInfo[i].twap = "int"
         THEN 1 ELSE 0
    ELSE IF line.kind = "block"
         THEN Cardinality(
                 {tid \in {line.events[i].tid : i \in DOMAIN line.events} \ {0} :
                     \E i \in DOMAIN line.events :
                         /\ ~line.events[i].isNull
                         /\ line.events[i].tid = tid
                         /\ line.events[i].twap = "int"})
         ELSE 0

\* A line that JSON.parse rejects, or a record without its required field:
\* side_info (Variant A), events (Variant B).
Malformed(v, line) ==
    \/ line.kind = "badjson"
    \/ v = "A" /\ line.kind = "nosideinfo"
    \/ v = "B" /\ line.kind = "noevents"

Lines(v) == IF v = "A" THEN DayLinesA ELSE DayLinesB
ProcessLine(v, line, nid) ==
    IF v = "A" THEN ProcessLineA(line, nid) ELSE ProcessLineB(line, nid)

\* --start-id=N as parseInt reads it: not given, or n (n = 0 stands for NaN
\* and for every value below 1).
NoStartId == [given |-> FALSE, n |-> 0]
StartIdArgs == {NoStartId} \cup {[given |-> TRUE, n |-> n] : n \in 0..MaxStartId}

\* Variant of FirstId in which the tracking file wins over --start-id.
FirstIdFileFirst(arg, file, readable) ==
    IF file.exists /\ readable /\ file.n > 0 THEN file.n + 1
    ELSE IF arg.given THEN arg.n
    ELSE 1

\* The first id of a run: --start-id, else tracking file + 1, else the
\* initial value 1 of the module-level counter.  readable: readFileSync
\* does not throw (when it does, the catch only warns).
FirstId(arg, file, readable) ==
    IF arg.given THEN arg.n
    ELSE IF file.exists /\ readable /\ file.n > 0 THEN file.n + 1
    ELSE 1

AddStats(a, b) == [f \in DOMAIN a |-> a[f] + b[f]]

GenExit(code) ==
    /\ gpc' = "exited"
    /\ gexit' = code

\* Start of main(): the id initialisation.
GenStart(v, arg, readable) ==
    /\ gpc \in {"idle", "exited"}
    /\ gruns < MaxGenRuns
    /\ gruns' = gruns + 1
    /\ variant' = v
    /\ startIdGiven' = arg.given
    /\ dayNo' = 1
    /\ dayStats' = ZeroStats
    /\ overallStats' = ZeroStats
    /\ ghist' = [runStart |-> Len(emitted),
                 startId |-> arg.n,
                 hadCsv |-> csvOut.trades.exists,
                 dayStartId |-> 0,
                 dayPassed |-> 0,
                 dayMalformed |-> 0,
                 dayFinished |-> FALSE,
                 readFailed |-> ~arg.given /\ trackingFile.exists
                                   /\ ~readable,
                 prevAdvanced |-> ghist.trackWrites > 0,
                 prevExit |-> gexit,
                 trackWrites |-> 0,
                 trackAtStart |-> trackingFile,
                 clean |-> (gruns = 0 \/ (ghist.clean /\ gexit = 0))
                           /\ ~arg.given]
    /\ IF arg.given /\ arg.n < 1
       THEN \* --start-id must be a positive integer
            /\ nextTradeId' = 1
            /\ GenExit(1)
       ELSE /\ nextTradeId' = FirstId(arg, trackingFile, readable)
            /\ gpc' = "loop"
            /\ UNCHANGED gexit
    /\ csvOut' = IF csvOut.trades.exists THEN LeftPair ELSE NoPair
    /\ UNCHANGED <<trackingFile, emitted>>
    /\ UNCHANGED notGenVars

\* Top of the loop over the sorted days: both write streams are created,
\* which creates or truncates the day's two CSV files.
OpenDay ==
    /\ gpc = "loop"
    /\ dayNo <= NDays
    /\ csvOut' = [trades |-> EmptyFile, participants |-> EmptyFile]
    /\ dayStats' = ZeroStats
    /\ gpc' = "lines"
    /\ ghist' = [ghist EXCEPT !.dayStartId = nextTradeId, !.dayPassed = 0,
                              !.dayMalformed = 0,
                              !.dayFinished = FALSE]
    /\ UNCHANGED <<trackingFile, variant, startIdGiven, nextTradeId, dayNo,
                   overallStats, emitted, gexit, gruns>>
    /\ UNCHANGED notGenVars

\* processFile: one non-empty line of an hour file of the day.
ReadLine(line) ==
    /\ gpc = "lines"
    /\ dayStats.linesRead < MaxLines
    /\ LET eff == ProcessLine(variant, line, nextTradeId)
       IN  /\ nextTradeId' = eff.nextTradeId
           /\ csvOut' =
                 [trades |-> [csvOut.trades EXCEPT !.rows = @ \o eff.trades],
                  participants |->
                     [csvOut.participants EXCEPT !.rows = @ \o eff.participants]]
           /\ dayStats' = [linesRead |-> dayStats.linesRead + 1,
                           tradesWritten |-> dayStats.tradesWritten + Len(eff.trades),
                           tradesSkipped |-> dayStats.tradesSkipped + eff.skipped,
                           errors |-> dayStats.errors + eff.errors]
           /\ emitted' = emitted \o eff.trades
    /\ ghist' = [ghist EXCEPT
                    !.dayPassed = @ + TradesPassing(variant, line),
                    !.dayMalformed = @ + IF Malformed(variant, line)
                                         THEN 1 ELSE 0]
    /\ UNCHANGED <<trackingFile, gpc, variant, startIdGiven, dayNo,
                   overallStats, gexit, gruns>>
    /\ UNCHANGED notGenVars

\* Variant of CloseDay that leaves the CSVs of a day without trades.
CloseDayKeepsFiles(finished) ==
    /\ gpc = "lines"
    /\ IF finished
       THEN overallStats' = AddStats(overallStats, dayStats)
       ELSE overallStats' = [overallStats EXCEPT !.errors = @ + 1]
    /\ dayNo' = dayNo + 1
    /\ gpc' = "loop"
    /\ ghist' = [ghist EXCEPT !.dayFinished = finished]
    /\ UNCHANGED <<trackingFile, variant, startIdGiven, nextTradeId, dayStats,
                   emitted, gexit, gruns, csvOut>>
    /\ UNCHANGED notGenVars

\* End of a day: the streams are ended and awaited.  finished: both 'finish'
\* events came within the timeout; the CSVs of a day without trades are
\* deleted and the day's statistics added to the run's.  Otherwise the
\* timeout rejects, the catch counts one error and the loop goes on.
CloseDay(finished) ==
    /\ gpc = "lines"
    /\ IF finished
       THEN /\ csvOut' = IF dayStats.tradesWritten = 0
                         THEN NoPair
                         ELSE csvOut
            /\ overallStats' = AddStats(overallStats, dayStats)
       ELSE /\ overallStats' = [overallStats EXCEPT !.errors = @ + 1]
            /\ UNCHANGED csvOut
    /\ dayNo' = dayNo + 1
    /\ gpc' = "loop"
    /\ ghist' = [ghist EXCEPT !.dayFinished = finished]
    /\ UNCHANGED <<trackingFile, variant, startIdGiven, nextTradeId, dayStats,
                   emitted, gexit, gruns>>
    /\ UNCHANGED notGenVars

\* Variant of FinalId that saves the next id instead of the last one used.
FinalIdIsNextId(nid) == nid

\* The value saved to the tracking file: finalId = nextTradeId - 1.
FinalId(nid) == nid - 1

\* After the loop: exit 1 when errors were counted; otherwise the last id
\* used is saved to the tracking file when at least one trade was written.
\* written: writeFileSync does not throw (when it does, for instance on a
\* file the process may not write, the catch only warns and the run still
\* ends with exit code 0).
Finish(written) ==
    /\ gpc = "loop"
    /\ dayNo > NDays
    /\ IF overallStats.errors > 0
       THEN /\ GenExit(1)
            /\ UNCHANGED <<trackingFile, ghist>>
       ELSE /\ GenExit(0)
            /\ IF overallStats.tradesWritten > 0 /\ written
               THEN /\ trackingFile' = TrackingText(FinalId(nextTradeId))
                    /\ ghist' = [ghist EXCEPT !.trackWrites = @ + 1]
               ELSE UNCHANGED <<trackingFile, ghist>>
    /\ UNCHANGED <<variant, startIdGiven, nextTradeId, dayNo, dayStats,
                   overallStats, csvOut, emitted, gruns>>
    /\ UNCHANGED notGenVars

\* The generator process is killed.
GenKill ==
    /\ gpc \in {"loop", "lines"}
    /\ GenExit(1)
    /\ UNCHANGED <<trackingFile, variant, startIdGiven, nextTradeId, dayNo,
                   dayStats, overallStats, csvOut, emitted, gruns, ghist>>
    /\ UNCHANGED notGenVars

InitGen ==
    /\ trackingFile \in {NoTrackingFile} \cup
                        {TrackingText(n) : n \in {0, MaxStartId}}
    /\ gpc = "idle"
    /\ variant = "A"
    /\ startIdGiven = FALSE
    /\ nextTradeId = 1
    /\ dayNo = 1
    /\ dayStats = ZeroStats
    /\ overallStats = ZeroStats
    /\ csvOut = NoPair
    /\ emitted = <<>>
    /\ gexit = -1
    /\ gruns = 0
    /\ ghist = [runStart |-> 0, startId |-> 0, readFailed |-> FALSE,
                hadCsv |-> FALSE, dayStartId |-> 0, dayPassed |-> 0,
                dayMalformed |-> 0,
                dayFinished |-> FALSE,
                prevAdvanced |-> FALSE,
                prevExit |-> -1,
                trackWrites |-> 0,
                trackAtStart |-> trackingFile, clean |-> TRUE]

NextGen ==
    \/ \E v \in Variants, arg \in StartIdArgs, readable \in BOOLEAN :
          GenStart(v, arg, readable)
    \/ OpenDay
    \/ \E line \in Lines(variant) : ReadLine(line)
    \/ \E finished \in BOOLEAN : CloseDay(finished)
    \/ \E written \in BOOLEAN : Finish(written)
    \/ GenKill

-----------------------------------------------------------------------------
(* The unified generator (generate-all-csv): it spawns the node_trades     *)
(* generator and, when that child exits with code 0, the                   *)
(* node_fills_by_block generator; otherwise it exits with code 1.  Both    *)
(* children get the source directory as their only argument.               *)

\* spawn('tsx', [scriptPath, sourceDir]): a generator run without --start-id.
runGenerateScript(v, readable) == GenStart(v, NoStartId, readable)

runNodeTrades(readable) ==
    /\ gruns = 0
    /\ runGenerateScript("A", readable)

\* if (!nodeTradesResult.success) process.exit(1); else the second child.
runNodeFills(readable) ==
    /\ gruns = 1
    /\ gpc = "exited"
    /\ gexit = 0
    /\ runGenerateScript("B", readable)

NextUnified ==
    \/ \E readable \in BOOLEAN : runNodeTrades(readable)
    \/ \E readable \in BOOLEAN : runNodeFills(readable)
    \/ OpenDay
    \/ \E line \in Lines(variant) : ReadLine(line)
    \/ \E finished \in BOOLEAN : CloseDay(finished)
    \/ \E written \in BOOLEAN : Finish(written)
    \/ GenKill

-----------------------------------------------------------------------------
(* The TWAP filter of the three ingestion paths, applied to one            *)
(* reconstructed trade.                                                    *)

Paths == {"A", "B", "direct"}
MaxParticipants == 3

\* hasTwapId of the direct import script:
\* record.side_info.some(si => si.twap_id !== null)
hasTwapId(sideInfo) ==
    \E i \in DOMAIN sideInfo : sideInfo[i] # "null"

\* Whether the path hands the trade on (writes its rows, or queues it for
\* insertion).
Emits(path, twaps) ==
    CASE path = "A" ->
           Len(twaps) > 0 /\
           tradeHasTwapIdA([i \in DOMAIN twaps |->
               [isNull |-> FALSE, twap |-> twaps[i], bad |-> FALSE]]) = "true"
      [] path = "B" ->
           tradeHasTwapIdB([i \in DOMAIN twaps |->
               [isNull |-> FALSE, tid |-> 77, twap |-> twaps[i], bad |-> "none"]])
      [] path = "direct" -> hasTwapId(twaps)

ApplyFilter ==
    /\ fresult = "pending"
    /\ fresult' = IF Emits(fpath, frecord) THEN "emitted" ELSE "dropped"
    /\ UNCHANGED <<fpath, frecord>>
    /\ UNCHANGED notFilterVars

InitFilter ==
    /\ fpath \in Paths
    /\ frecord \in SeqsUpTo(TwapKinds, MaxParticipants) \cup {<<>>}
    /\ fresult = "pending"

NextFilter == ApplyFilter

-----------------------------------------------------------------------------
(* Import runs side by side.  main() connects to the database and goes     *)
(* through its phases without taking a lock of any kind (no advisory lock, *)
(* no LOCK TABLE, no lock file), so every operating-system process that    *)
(* runs the script steps on its own.  Here each process is followed phase  *)
(* by phase; the tables and the sequence are the ones of the one database. *)

NProcs == 2
Procs == 1..NProcs
Modes == {"full", "staging-only", "migrate-only"}

IdleProc == [phase |-> "idle", mode |-> "full", day |-> 1, maxBefore |-> JsNull]

\* What the phase-level steps of a process leave alone.
singleRunVars == <<csvFiles, txTrades, txParts, inTx, pc, runFlags, csvPairs,
                   dayIdx, maxIdBefore, statsErrors, exitInfo, runs, atStart,
                   prev>>

\* Argument parsing, the scan of the data directory, the connection and
\* SELECT MAX(id) FROM trades.  Nothing here looks for another run.
RunStart(p, mode) ==
    /\ procs[p].phase = "idle"
    /\ procs' = [procs EXCEPT ![p] =
          [phase |-> IF mode = "migrate-only" THEN "verify" ELSE "stage_load",
           mode |-> mode,
           day |-> 1,
           maxBefore |-> JsOr(PgMax(prodTrades), JsNum(0))]]
    /\ UNCHANGED <<dbTables, singleRunVars>>
    /\ UNCHANGED notRunsVars

\* STAGE_LOAD, one iteration of the loop: importDay copies the day's two
\* CSV files into the staging tables.
RunImportDay(p) ==
    /\ procs[p].phase = "stage_load"
    /\ LET pairs == SortByDay(findCsvPairs)
           k == pairs[procs[p].day]
       IN  /\ stagingTrades' = stagingTrades (+) SetToBag(csvFiles[k].trades)
           /\ stagingParts' =
                 stagingParts (+) SetToBag(csvFiles[k].participants)
           /\ procs' = [procs EXCEPT
                 ![p].day = @ + 1,
                 ![p].phase = IF procs[p].day < Len(pairs)
                              THEN "stage_load" ELSE "verify"]
    /\ UNCHANGED <<prodTrades, prodParts, seq, singleRunVars>>
    /\ UNCHANGED notRunsVars

\* VERIFY, the stop of a --staging-only run, and BEGIN.
RunVerify(p) ==
    /\ procs[p].phase = "verify"
    /\ procs' = [procs EXCEPT ![p].phase =
          IF IdConflict(PgMin(StagingIds), procs[p].maxBefore) THEN "exited"
          ELSE IF procs[p].mode = "staging-only" THEN "exited"
          ELSE "migrate"]
    /\ UNCHANGED <<dbTables, singleRunVars>>
    /\ UNCHANGED notRunsVars

\* MIGRATE: the two INSERT ... SELECT statements and COMMIT, or ROLLBACK
\* and process.exit(1) when a statement fails.
RunMigrate(p) ==
    /\ procs[p].phase = "migrate"
    /\ IF PrimaryKeyViolation
          \/ \E r \in BagToSet(stagingParts) :
                r.trade_id \notin (prodTrades \cup StagingIds)
       THEN /\ procs' = [procs EXCEPT ![p].phase = "exited"]
            /\ UNCHANGED <<prodTrades, prodParts>>
       ELSE /\ prodTrades' = prodTrades \cup StagingIds
            /\ prodParts' = prodParts (+) stagingParts
            /\ procs' = [procs EXCEPT ![p].phase = "advance"]
    /\ UNCHANGED <<stagingTrades, stagingParts, seq, singleRunVars>>
    /\ UNCHANGED notRunsVars

\* ADVANCE_SEQUENCE and CLEANUP: setval to the maximum id now in trades,
\* then TRUNCATE of both staging tables.
RunAdvanceAndCleanup(p) ==
    /\ procs[p].phase = "advance"
    /\ LET maxIdAfter == JsOr(PgMax(prodTrades), JsNum(0))
       IN  IF maxIdAfter.v < 1
           THEN UNCHANGED <<seq, stagingTrades, stagingParts>>
           ELSE /\ seq' = maxIdAfter.v
                /\ stagingTrades' = EmptyBag
                /\ stagingParts' = EmptyBag
    /\ procs' = [procs EXCEPT ![p].phase = "exited"]
    /\ UNCHANGED <<prodTrades, prodParts, singleRunVars>>
    /\ UNCHANGED notRunsVars

InitRuns ==
    /\ InitImport
    /\ procs = [p \in Procs |-> IdleProc]

NextRuns ==
    \/ \E p \in Procs, mode \in Modes : RunStart(p, mode)
    \/ \E p \in Procs : RunImportDay(p)
    \/ \E p \in Procs : RunVerify(p)
    \/ \E p \in Procs : RunMigrate(p)
    \/ \E p \in Procs : RunAdvanceAndCleanup(p)

-----------------------------------------------------------------------------
(* Direct insertion through the Supabase client: insertTradesBatch of the  *)
(* daily sync (one trade at a time), insertTradesBatch of the direct       *)
(* import script (one batch at a time) and POST /api/trades (one trade).   *)
(* Every statement is its own transaction; the id of a new trade comes     *)
(* from trades_id_seq.                                                     *)

InsertPaths == {"sync", "direct", "api"}
MaxBatch == 2

\* A trade to insert is the list of its participants as the caller has
\* them: an object, or null where the input JSON holds null.
ParticipantLists == {<<"obj">>, <<"obj", "obj">>, <<"obj", "null">>}

\* The daily sync builds its participants itself; the direct import script
\* takes side_info and POST takes body.participants as parsed.
Batches(path) ==
    LET lists == IF path = "sync" THEN {<<"obj">>, <<"obj", "obj">>}
                 ELSE ParticipantLists
        n == IF path = "api" THEN 1 ELSE MaxBatch
    IN  UNION {[1..k -> lists] : k \in 1..n}

NoInsert == [path |-> "sync", pc |-> "idle", batch |-> <<>>, i |-> 1,
             ids |-> {}, pending |-> {}, inserted |-> 0, errors |-> 0,
             partFailed |-> FALSE, exit |-> -1, dryRun |-> FALSE,
             preview |-> FALSE, existing |-> FALSE]

\* The trades one statement inserts: the whole batch in the direct import
\* script, one trade elsewhere.
Chunk(path, batch, i) ==
    IF path = "direct" THEN 1..Len(batch) ELSE {i}

\* After a trade of the loop (daily sync) or the call (elsewhere).
NextTrade(st) ==
    IF st.path = "sync" /\ st.i < Len(st.batch)
    THEN [st EXCEPT !.i = @ + 1, !.pc = "insert_trade", !.pending = {}]
    ELSE [st EXCEPT !.pc = "done", !.pending = {}]

insFrame == <<stagingTrades, stagingParts, singleRunVars>>

\* --dry-run is an option of the two scripts; POST has none.  existing:
\* the trades production holds have their time within yesterday, the day
\* the daily sync is about to fetch.  A daily sync that is no dry run
\* begins with the check for existing data.
InsertStart(path, batch, dry, existing) ==
    /\ ins.pc = "idle"
    /\ dry => path # "api"
    /\ existing => (path = "sync" /\ prodTrades # {})
    /\ ins' = [NoInsert EXCEPT !.path = path, !.batch = batch,
                               !.dryRun = dry, !.existing = existing,
                               !.pc = IF dry THEN "collect"
                                      ELSE IF path = "sync" THEN "check"
                                      ELSE "insert_trade"]
    /\ UNCHANGED <<prodTrades, prodParts, seq, insFrame>>
    /\ UNCHANGED notInsVars

\* supabase.from('trades').select('id', {count: 'exact', head: true})
\* with the filters on time: a HEAD request, whose response has no body.
\* The client returns the number of matching rows in count and null in
\* data.
SelectHead(rows) == [dataIsNull |-> TRUE, dataLength |-> 0,
                     count |-> Cardinality(rows)]

\* The check for existing data of yesterday.  ok: the query returns no
\* error (when it does, the sync warns and goes on).
CheckExisting(ok) ==
    /\ ins.pc = "check"
    /\ LET result == SelectHead(IF ins.existing THEN prodTrades ELSE {})
       IN  ins' = IF ok /\ ~result.dataIsNull /\ result.dataLength > 0
                  THEN \* "already exists": return
                       [ins EXCEPT !.pc = "done"]
                  ELSE [ins EXCEPT !.pc = "insert_trade"]
    /\ UNCHANGED <<prodTrades, prodParts, seq, insFrame>>
    /\ UNCHANGED notInsVars

\* A dry run.  The daily sync collects the trades in allTrades, counts
\* them as inserted and, when there are any, writes
\* sync-data-preview-<day>.json.  The direct import script counts each
\* trade as inserted and writes no file.
CollectDryRun ==
    /\ ins.pc = "collect"
    /\ ins' = [ins EXCEPT
          !.pc = "done",
          !.inserted = Len(ins.batch),
          !.preview = (ins.path = "sync" /\ Len(ins.batch) > 0)]
    /\ UNCHANGED <<prodTrades, prodParts, seq, insFrame>>
    /\ UNCHANGED notInsVars

\* supabase.from('trades').insert(...).select(): the rows get the next ids
\* of the sequence, or the statement returns an error and inserts nothing.
InsertTradeRows(ok) ==
    /\ ins.pc = "insert_trade"
    /\ LET n == Cardinality(Chunk(ins.path, ins.batch, ins.i))
           new == (seq + 1)..(seq + n)
       IN  IF ok
           THEN /\ prodTrades' = prodTrades \cup new
                /\ seq' = seq + n
                /\ ins' = [ins EXCEPT !.pc = "insert_participants",
                                      !.pending = new,
                                      !.ids = @ \cup new]
           ELSE /\ ins' = NextTrade([ins EXCEPT !.errors = @ + n])
                /\ UNCHANGED <<prodTrades, seq>>
    /\ UNCHANGED <<prodParts, insFrame>>
    /\ UNCHANGED notInsVars

\* The participant records are built with participants.map(...) and
\* inserted with one statement.  Reading a field of a null participant
\* throws (direct import script, POST), and so may the client; a throw is
\* caught by the enclosing catch, which counts or reports the error and
\* deletes nothing.  A returned error leads to the delete of the trades.
InsertParticipantRows(outcome) ==
    /\ ins.pc = "insert_participants"
    /\ LET chunk == Chunk(ins.path, ins.batch, ins.i)
           nullField == \E t \in chunk :
                           \E j \in DOMAIN ins.batch[t] :
                               ins.batch[t][j] = "null"
           idOf(t) == IF ins.path = "direct" THEN MinOf(ins.pending) + t - 1
                      ELSE MinOf(ins.pending)
           rows == {[trade_id |-> idOf(t), part |-> 0, n |-> j] :
                       t \in chunk, j \in 1..MaxParticipants}
           built == {r \in rows :
                       \E t \in chunk : /\ r.trade_id = idOf(t)
                                        /\ r.n \in DOMAIN ins.batch[t]}
           n == Cardinality(chunk)
       IN  IF (nullField /\ ins.path # "sync") \/ outcome = "thrown"
           THEN /\ ins' = NextTrade([ins EXCEPT !.errors = @ + n,
                                                !.partFailed = TRUE])
                /\ UNCHANGED prodParts
           ELSE IF outcome = "error"
           THEN /\ ins' = [ins EXCEPT !.pc = "delete_trades",
                                      !.partFailed = TRUE]
                /\ UNCHANGED prodParts
           ELSE /\ prodParts' = prodParts (+) SetToBag(built)
                /\ ins' = NextTrade([ins EXCEPT !.inserted = @ + n])
    /\ UNCHANGED <<prodTrades, seq, insFrame>>
    /\ UNCHANGED notInsVars

\* supabase.from('trades').delete().eq('id', ...) / .in('id', tradeIds)
DeleteTradeRows ==
    /\ ins.pc = "delete_trades"
    /\ prodTrades' = prodTrades \ ins.pending
    /\ ins' = NextTrade([ins EXCEPT
                 !.errors = @ + Cardinality(ins.pending)])
    /\ UNCHANGED <<prodParts, seq, insFrame>>
    /\ UNCHANGED notInsVars

\* The end of the script that made the call.  The direct import script
\* ends with process.exit(stats.errors > 0 ? 1 : 0).  syncDataFromS3 adds
\* the errors of insertTradesBatch to totalErrors, prints the count and
\* returns; the caller's then() ends with process.exit(0).
ScriptExit ==
    /\ ins.pc = "done"
    /\ ins.path \in {"sync", "direct"}
    /\ ins' = [ins EXCEPT
          !.pc = "exited",
          !.exit = IF ins.path = "direct" /\ ins.errors > 0 THEN 1 ELSE 0]
    /\ UNCHANGED <<prodTrades, prodParts, seq, insFrame>>
    /\ UNCHANGED notInsVars

InitInsert ==
    /\ InitImport
    /\ ins = NoInsert

NextInsert ==
    \/ \E path \in InsertPaths, dry, existing \in BOOLEAN :
          \E batch \in Batches(path) : InsertStart(path, batch, dry, existing)
    \/ \E ok \in BOOLEAN : CheckExisting(ok)
    \/ CollectDryRun
    \/ \E ok \in BOOLEAN : InsertTradeRows(ok)
    \/ \E outcome \in {"ok", "error", "thrown"} : InsertParticipantRows(outcome)
    \/ DeleteTradeRows
    \/ ScriptExit

-----------------------------------------------------------------------------
(* The leaderboard aggregator: the delta script (updateLeaderboardDelta),  *)
(* the batched script and the materialized-view script (updateLeaderboard).*)
(* Volumes are NUMERIC in the database and reach the scripts as decimal    *)
(* strings; here they are whole numbers.                                   *)

Users == {1, 2, 3}          \* user addresses, in the order of ORDER BY
MaxVolume == 5
TopN == 2                   \* .slice(0, 100) and WHERE rank <= 100
FloatExact == 4             \* from here on a float holds even numbers only
MaxWrites == 2              \* replacements of the table that are followed
MaxInserts == 2             \* insertions of trades that are followed

\* parseFloat: the nearest representable number, ties to the even mantissa.
ParseFloat(v) ==
    IF v < FloatExact \/ v % 2 = 0 THEN v
    ELSE IF ((v - 1) \div 2) % 2 = 0 THEN v - 1 ELSE v + 1

\* The sequences without repetition over the members of S.
RECURSIVE Orderings(_)
Orderings(S) ==
    IF S = {} THEN {<<>>}
    ELSE UNION {{<<u>> \o s : s \in Orderings(S \ {u})} : u \in S}

\* SELECT ..., ROW_NUMBER() OVER (ORDER BY total_volume DESC) FROM ...
\* WHERE total_volume > 0 ORDER BY rank: the rows in an order the server
\* may produce (rows of equal volume in any order).
RankedUsers(vol) ==
    {s \in Orderings({u \in Users : vol[u] > 0}) :
        \A i, j \in DOMAIN s : i < j => vol[s[i]] >= vol[s[j]]}

\* allStats.sort((a, b) => parseFloat(b.total_volume) -
\* parseFloat(a.total_volume)): stable.
RECURSIVE SortByVolume(_, _)
SortByVolume(s, vol) ==
    IF s = <<>> THEN <<>>
    ELSE LET m == MaxOf({ParseFloat(vol[s[i]]) : i \in DOMAIN s})
             first == MinOf({i \in DOMAIN s : ParseFloat(vol[s[i]]) = m})
             rest == [j \in 1..(Len(s) - 1) |->
                         IF j < first THEN s[j] ELSE s[j + 1]]
         IN  <<s[first]>> \o SortByVolume(rest, vol)

\* .slice(0, n)
Slice(s, n) == SubSeq(s, 1, IF Len(s) < n THEN Len(s) ELSE n)

\* The value the total_volume column keeps of the decimal string it is
\* given: the number itself in a NUMERIC column, the nearest float in a
\* DOUBLE PRECISION column.
Stored(v) == IF lb.numericColumn THEN v ELSE ParseFloat(v)

\* INSERT INTO leaderboard_stats ... VALUES ...: rank idx + 1 for row idx.
\* last_updated is NOW(): the number of the write.
LeaderboardRows(s, vol, now) ==
    {[user_address |-> s[i], total_volume |-> Stored(vol[s[i]]), rank |-> i,
      last_updated |-> now] : i \in DOMAIN s}

\* The table is replaced by the rows of s.
Replace(strategy, s) ==
    [lb EXCEPT !.last = strategy, !.ok = TRUE, !.fresh = FALSE,
               !.newer = FALSE, !.wrote = TRUE, !.writes = @ + 1,
               !.table = LeaderboardRows(s, lb.volumes, lb.writes + 1)]

\* The run ends without a write to the table.
Leave(strategy, ok) ==
    [lb EXCEPT !.last = strategy, !.ok = ok, !.wrote = FALSE]

\* The run fails (it ends in its catch) and leaves the given rows.
Fail(strategy, table) ==
    [lb EXCEPT !.last = strategy, !.ok = FALSE, !.wrote = FALSE,
               !.table = table]

lbFrame == <<dbTables, singleRunVars>>

\* Trades of TWAP orders reach production: the volume of a user grows.
\* late: the time of the trades (their execution time) is not later than
\* the last_updated of the table, which is the time of the run that wrote
\* it; the daily sync and the bulk import insert trades of earlier days.
NewTrades(u, dv, late) ==
    /\ lb.volumes[u] + dv <= MaxVolume
    /\ lb.inserts < MaxInserts
    /\ lb' = [lb EXCEPT !.volumes[u] = @ + dv, !.fresh = TRUE,
                        !.inserts = @ + 1,
                        !.newer = IF late THEN @ ELSE TRUE]
    /\ UNCHANGED lbFrame
    /\ UNCHANGED notLbVars

\* Variant of updateLeaderboardDelta that recomputes the ranking also when
\* no trade is newer than the last update.
updateLeaderboardDeltaAlways(ranked, inserted) ==
    /\ lb.writes < MaxWrites
    /\ ranked \in RankedUsers(lb.volumes)
    /\ IF lb.table = {}
       THEN lb' = Leave("delta", FALSE)
       ELSE IF ~inserted
       THEN lb' = Fail("delta", lb.table)
       ELSE lb' = Replace("delta", ranked)
    /\ UNCHANGED lbFrame
    /\ UNCHANGED notLbVars

\* The delta script: exit 1 on an empty leaderboard; nothing to do without
\* trades newer than last_updated; else the ranking of all users replaces
\* the table (BEGIN, TRUNCATE, INSERT, COMMIT).  inserted: the INSERT
\* succeeds; when it fails the catch issues ROLLBACK, which undoes the
\* TRUNCATE.
updateLeaderboardDelta(ranked, inserted) ==
    /\ lb.writes < MaxWrites \/ lb.table = {} \/ ~lb.newer
    /\ ranked \in RankedUsers(lb.volumes)
    /\ IF lb.table = {}
       THEN lb' = Leave("delta", FALSE)
       ELSE IF ~lb.newer
       THEN lb' = Leave("delta", TRUE)
       ELSE IF ~inserted
       THEN lb' = Fail("delta", lb.table)
       ELSE lb' = Replace("delta", ranked)
    /\ UNCHANGED lbFrame
    /\ UNCHANGED notLbVars

\* The batched script: allStats holds the rows of the batches in the order
\* the server returned them; filter, sort, slice and map give the ranks;
\* TRUNCATE and INSERT, two statements outside any transaction, replace
\* the table.  inserted: the INSERT succeeds; when it fails the TRUNCATE
\* has taken effect.
updateLeaderboardBatched(allStats, inserted) ==
    /\ lb.writes < MaxWrites
    /\ allStats \in Orderings(Users)
    /\ LET positive == SelectSeq(allStats,
                          LAMBDA u : ParseFloat(lb.volumes[u]) > 0)
           sortedStats == Slice(SortByVolume(positive, lb.volumes), TopN)
       IN  IF sortedStats # <<>> /\ ~inserted
           THEN lb' = Fail("batched", {})
           ELSE lb' = Replace("batched", sortedStats)
    /\ UNCHANGED lbFrame
    /\ UNCHANGED notLbVars

\* The view user_twap_stats_mv: absent from pg_matviews, and as the first
\* run of the materialized-view script creates it.
NoView == [exists |-> FALSE, uniqueIndex |-> FALSE]

CreatedView == [exists |-> TRUE, uniqueIndex |-> FALSE]

\* The materialized-view script: the view is created or refreshed, the
\* first ranks are read from it; without rows the script returns, else
\* TRUNCATE and INSERT, two statements outside any transaction, replace
\* the table.  The first run creates the view and, on it, the index
\* idx_user_twap_stats_volume with CREATE INDEX (not UNIQUE); a later run
\* issues REFRESH MATERIALIZED VIEW CONCURRENTLY, which the server
\* rejects for a view without a unique index: the run throws before it
\* reads the ranks.
updateLeaderboardMatView(ranked, inserted) ==
    /\ lb.writes < MaxWrites
    /\ ranked \in RankedUsers(lb.volumes)
    /\ LET rows == Slice(ranked, TopN)
           view == IF lb.view.exists THEN lb.view ELSE CreatedView
           refresh == IF ~lb.view.exists THEN "created"
                      ELSE IF lb.view.uniqueIndex THEN "refreshed"
                      ELSE "rejected"
           after == IF refresh = "rejected" THEN Fail("matview", lb.table)
                    ELSE IF rows = <<>> THEN Leave("matview", TRUE)
                    ELSE IF ~inserted THEN Fail("matview", {})
                    ELSE Replace("matview", rows)
       IN  lb' = [after EXCEPT !.view = view, !.refresh = refresh]
    /\ UNCHANGED lbFrame
    /\ UNCHANGED notLbVars

NoLeaderboard == [volumes |-> [u \in Users |-> 0], table |-> {},
                  numericColumn |-> TRUE, fresh |-> FALSE, newer |-> FALSE,
                  view |-> NoView, refresh |-> "none", inserts |-> 0,
                  last |-> "none",
                  ok |-> FALSE, wrote |-> FALSE, writes |-> 0]

\* The volumes production holds at first: none, two that parseFloat does
\* not tell apart, three distinct ones, two equal ones.
InitialVolumes ==
    {<<0, 0, 0>>, <<0, MaxVolume - 1, MaxVolume>>, <<1, 2, 3>>, <<2, 2, 0>>}

InitLeaderboard ==
    \E vol \in InitialVolumes, numeric \in BOOLEAN :
        lb = [NoLeaderboard EXCEPT !.volumes = vol,
                                   !.numericColumn = numeric]

NextLeaderboard ==
    \/ \E u \in Users, dv \in 1..2, late \in BOOLEAN : NewTrades(u, dv, late)
    \/ \E ranked \in RankedUsers(lb.volumes), inserted \in BOOLEAN :
          updateLeaderboardDelta(ranked, inserted)
    \/ \E allStats \in Orderings(Users), inserted \in BOOLEAN :
          updateLeaderboardBatched(allStats, inserted)
    \/ \E ranked \in RankedUsers(lb.volumes), inserted \in BOOLEAN :
          updateLeaderboardMatView(ranked, inserted)

-----------------------------------------------------------------------------
(* The CSV rows of the generators, field by field, and their decoding by   *)
(* COPY ... WITH (FORMAT csv, NULL '\N').  A text is a sequence of          *)
(* characters.  Of a row only the fields written from optional source      *)
(* values, the user and the side are kept; coin, time, px, sz, hash,       *)
(* start_pos and oid go through escapeCsvField like them.                  *)

MaxLen == 3
MaxEvents == 4

Chars == {"a", "N", ",", "\"", "\n", "\r", "\\"}
Texts == UNION {[1..k -> Chars] : k \in 0..MaxLen}

\* A JavaScript value: undefined (an absent property), null, or a string
\* (a number stands as the string String() makes of it).
Undefined == [kind |-> "undefined", s |-> <<>>]
Null == [kind |-> "null", s |-> <<>>]
Str(s) == [kind |-> "string", s |-> s]
Broken == [kind |-> "error", s |-> <<>>]

Contains(s, c) == \E i \in DOMAIN s : s[i] = c

\* strValue.replace(/c/g, 'cc')
RECURSIVE ReplaceDoubled(_, _)
ReplaceDoubled(s, c) ==
    IF s = <<>> THEN <<>>
    ELSE (IF Head(s) = c THEN <<c, c>> ELSE <<Head(s)>>)
         \o ReplaceDoubled(Tail(s), c)

escapeCsvField(value) ==
    IF value.kind \in {"null", "undefined"} THEN <<"\\", "N">>
    ELSE LET strValue == ReplaceDoubled(ReplaceDoubled(value.s, "\\"), "\"")
         IN  IF \/ Contains(strValue, ",")
                \/ Contains(strValue, "\n")
                \/ Contains(strValue, "\"")
             THEN <<"\"">> \o strValue \o <<"\"">>
             ELSE strValue

\* One field as COPY reads it in csv format: the quote character opens and
\* closes a quoted part, inside of which a doubled quote is one quote; the
\* backslash is an ordinary character; outside quotes a comma ends the
\* field and a newline or carriage return ends the row, so that the text is
\* not read as one field (Broken), as is a text whose quote is not closed.
RECURSIVE CopyField(_, _, _, _)
CopyField(t, i, inQuote, acc) ==
    IF i > Len(t) THEN IF inQuote THEN Broken ELSE Str(acc)
    ELSE IF inQuote
         THEN IF t[i] = "\""
              THEN IF i < Len(t) /\ t[i + 1] = "\""
                   THEN CopyField(t, i + 2, TRUE, Append(acc, "\""))
                   ELSE CopyField(t, i + 1, FALSE, acc)
              ELSE CopyField(t, i + 1, TRUE, Append(acc, t[i]))
         ELSE IF t[i] = "\"" THEN CopyField(t, i + 1, TRUE, acc)
              ELSE IF t[i] \in {",", "\n", "\r"} THEN Broken
              ELSE CopyField(t, i + 1, FALSE, Append(acc, t[i]))

\* NULL '\N': an unquoted field that is exactly \N is NULL.
CopyDecode(t) ==
    IF t = <<"\\", "N">> THEN Null ELSE CopyField(t, 1, FALSE, <<>>)

\* x || null
OrNull(x) == IF x.kind = "string" /\ x.s # <<>> THEN x ELSE Null

\* x !== null && x !== undefined
Present(x) == x.kind \notin {"null", "undefined"}

Out(tr, ps, nid, sk) ==
    [trades |-> tr, participants |-> ps, nextTradeId |-> nid, skipped |-> sk]

\* ---- Variant A ------------------------------------------------------------

\* Variant of participantRowA that takes the side from the record.
participantRowASideOfRecord(trade, i, tradeId) ==
    [trade_id |-> tradeId,
     user_address |-> escapeCsvField(trade.side_info[i].user),
     side |-> escapeCsvField(Str(<<trade.side>>)),
     twap_id |-> escapeCsvField(trade.side_info[i].twap_id),
     cloid |-> escapeCsvField(OrNull(trade.side_info[i].cloid))]

tradeRowA(trade, tradeId) ==
    [id |-> tradeId,
     trade_dir_override |->
        escapeCsvField(IF trade.trade_dir_override = Str(<<"N", "a">>)
                       THEN Null ELSE trade.trade_dir_override)]

\* The row of side_info[i] (1-based here): side B for the first element,
\* side A for every other.
participantRowA(trade, i, tradeId) ==
    [trade_id |-> tradeId,
     user_address |-> escapeCsvField(trade.side_info[i].user),
     side |-> escapeCsvField(Str(IF i = 1 THEN <<"B">> ELSE <<"A">>)),
     twap_id |-> escapeCsvField(trade.side_info[i].twap_id),
     cloid |-> escapeCsvField(OrNull(trade.side_info[i].cloid))]

\* The body of the loop of processFile for one parsed record.
rowsOfRecordA(trade, nid) ==
    IF trade.side_info = <<>> THEN Out(<<>>, <<>>, nid, 0)
    ELSE IF ~\E i \in DOMAIN trade.side_info :
                Present(trade.side_info[i].twap_id)
         THEN Out(<<>>, <<>>, nid, 1)
         ELSE Out(<<tradeRowA(trade, nid)>>,
                  [i \in DOMAIN trade.side_info |->
                      participantRowA(trade, i, nid)],
                  nid + 1, 0)

\* ---- Variant B ------------------------------------------------------------

\* Variant of tradesByTid that makes a group of every event with a tid.
tradesByTidPerEvent(events) ==
    LET kept == SelectSeq(events, LAMBDA e : e.tid # 0)
    IN  [g \in DOMAIN kept |-> [tid |-> kept[g].tid,
                                participants |-> <<kept[g]>>]]

\* Array.from(tradesByTid.entries()): the groups in order of the first
\* appearance of their tid, each with its events in input order.
tradesByTid(events) ==
    LET order == TidOrder(events, 1, <<>>)
    IN  [g \in DOMAIN order |-> [tid |-> order[g],
                                 participants |-> GroupOf(events, order[g])]]

tradeRowB(firstTrade, tradeId) ==
    [id |-> tradeId,
     trade_dir_override |-> escapeCsvField(OrNull(firstTrade.dir))]

participantRowB(event, tradeId) ==
    [trade_id |-> tradeId,
     user_address |-> escapeCsvField(event.user),
     side |-> escapeCsvField(Str(<<event.side>>)),
     twap_id |-> escapeCsvField(event.twapId),
     cloid |-> escapeCsvField(OrNull(event.cloid))]

\* The loop over the groups, from group g on.
RECURSIVE rowsOfGroups(_, _, _)
rowsOfGroups(groups, g, out) ==
    IF g > Len(groups) THEN out
    ELSE LET participants == groups[g].participants
             tradeId == out.nextTradeId
         IN  IF ~\E i \in DOMAIN participants : Present(participants[i].twapId)
             THEN rowsOfGroups(groups, g + 1,
                               [out EXCEPT !.skipped = @ + 1])
             ELSE rowsOfGroups(groups, g + 1,
                    [out EXCEPT
                       !.trades = Append(@, tradeRowB(participants[1], tradeId)),
                       !.participants = @ \o
                           [i \in DOMAIN participants |->
                               participantRowB(participants[i], tradeId)],
                       !.nextTradeId = tradeId + 1])

\* The body of the loop of processFile for one parsed block.
rowsOfBlockB(events, nid) ==
    rowsOfGroups(tradesByTid(events), 1, Out(<<>>, <<>>, nid, 0))

\* ---- the inputs -----------------------------------------------------------

UserA == Str(<<"u">>)
UserB == Str(<<"v">>)
TwapSeven == Str(<<"7">>)
OptionalValues(x) == {Undefined, Null, Str(<<>>), Str(<<x>>)}

SideInfos ==
    {[user |-> u, twap_id |-> t, cloid |-> c] :
        u \in {UserA, UserB}, t \in OptionalValues("7"),
        c \in OptionalValues("c")}
PlainSideInfos ==
    {[user |-> u, twap_id |-> t, cloid |-> Null] :
        u \in {UserA, UserB}, t \in {Null, TwapSeven}}

\* Records with up to MaxElems elements of side_info of every kind, and
\* with up to MaxParticipants plain ones.
RecordsA ==
    {[side |-> sd, trade_dir_override |-> d, side_info |-> si] :
        sd \in {"A", "B"},
        d \in OptionalValues("x") \cup {Str(<<"N", "a">>)},
        si \in {<<>>} \cup SeqsUpTo(SideInfos, MaxElems)
               \cup [1..MaxParticipants -> PlainSideInfos]}

PlainEvents ==
    {[user |-> u, tid |-> t, side |-> "B", twapId |-> tw, cloid |-> Null,
      dir |-> Null] :
        u \in {UserA, UserB}, t \in Tids, tw \in {Null, TwapSeven}}
AnyEvents ==
    {[user |-> UserA, tid |-> 77, side |-> sd, twapId |-> tw, cloid |-> c,
      dir |-> d] :
        sd \in {"A", "B"}, tw \in OptionalValues("7"),
        c \in OptionalValues("c"), d \in OptionalValues("x")}

\* Blocks of up to MaxEvents plain events, and of one event of every kind.
BlocksB == SeqsUpTo(PlainEvents, MaxEvents) \cup [1..1 -> AnyEvents]

NoTrade == [side |-> "B", trade_dir_override |-> Null, side_info |-> <<>>]
NoCsv == [op |-> "none", done |-> FALSE, value |-> Null, trade |-> NoTrade,
          events |-> <<>>, nid |-> 1, text |-> <<>>, decoded |-> Null,
          out |-> Out(<<>>, <<>>, 1, 0)]

InitCsv ==
    \/ \E v \in {Undefined, Null} \cup {Str(t) : t \in Texts} :
          csv = [NoCsv EXCEPT !.op = "field", !.value = v]
    \/ \E trade \in RecordsA, nid \in 1..MaxStartId :
          csv = [NoCsv EXCEPT !.op = "recordA", !.trade = trade, !.nid = nid]
    \/ \E events \in BlocksB, nid \in 1..MaxStartId :
          csv = [NoCsv EXCEPT !.op = "blockB", !.events = events,
                              !.nid = nid]

\* A field is written by a generator and read by COPY.
WriteField ==
    /\ csv.op = "field" /\ ~csv.done
    /\ csv' = [csv EXCEPT !.done = TRUE,
                          !.text = escapeCsvField(csv.value),
                          !.decoded = CopyDecode(escapeCsvField(csv.value))]
    /\ UNCHANGED notCsvVars

WriteRecordA ==
    /\ csv.op = "recordA" /\ ~csv.done
    /\ csv' = [csv EXCEPT !.done = TRUE,
                          !.out = rowsOfRecordA(csv.trade, csv.nid)]
    /\ UNCHANGED notCsvVars

WriteBlockB ==
    /\ csv.op = "blockB" /\ ~csv.done
    /\ csv' = [csv EXCEPT !.done = TRUE,
                          !.out = rowsOfBlockB(csv.events, csv.nid)]
    /\ UNCHANGED notCsvVars

NextCsv == WriteField \/ WriteRecordA \/ WriteBlockB

-----------------------------------------------------------------------------
(* Specifications.                                                         *)

IdleImport ==
    /\ csvFiles = [k \in Partitions |-> CsvPair(1, k, k)]
    /\ stagingTrades = EmptyBag /\ stagingParts = EmptyBag
    /\ prodTrades = {} /\ prodParts = EmptyBag
    /\ txTrades = {} /\ txParts = EmptyBag /\ inTx = FALSE
    /\ seq = 0 /\ pc = "idle"
    /\ stagingOnly = FALSE /\ migrateOnly = FALSE /\ skipSequence = FALSE
    /\ startDate = 0 /\ csvPairs = <<>> /\ dayIdx = 1
    /\ maxIdBefore = JsNull /\ statsErrors = 0
    /\ exitCode = -1 /\ abortedAt = "none" /\ failedDay = 0
    /\ runs = 0 /\ prev = NoRun

IdleGen ==
    /\ trackingFile = NoTrackingFile
    /\ gpc = "idle" /\ variant = "A" /\ startIdGiven = FALSE
    /\ nextTradeId = 1 /\ dayNo = 1
    /\ dayStats = ZeroStats /\ overallStats = ZeroStats
    /\ csvOut = NoPair
    /\ emitted = <<>> /\ gexit = -1 /\ gruns = 0
    /\ ghist = [runStart |-> 0, startId |-> 0, readFailed |-> FALSE,
                hadCsv |-> FALSE, dayStartId |-> 0, dayPassed |-> 0,
                dayMalformed |-> 0,
                dayFinished |-> FALSE,
                prevAdvanced |-> FALSE,
                prevExit |-> -1,
                trackWrites |-> 0,
                trackAtStart |-> NoTrackingFile, clean |-> TRUE]

IdleFilter ==
    /\ fpath = "A" /\ frecord = <<>> /\ fresult = "pending"

IdleRuns == procs = [p \in Procs |-> IdleProc]

IdleInsert == ins = NoInsert

IdleLeaderboard == lb = NoLeaderboard

IdleCsv == csv = NoCsv

\* The bulk import script and the database.
ImportInit ==
    InitImport /\ IdleGen /\ IdleFilter /\ IdleRuns /\ IdleInsert
    /\ IdleLeaderboard /\ IdleCsv
    /\ atStart = Snapshot
SpecImport == ImportInit /\ [][NextImport]_vars

\* The generators and the tracking file.
GenInit ==
    IdleImport /\ InitGen /\ IdleFilter /\ IdleRuns /\ IdleInsert
    /\ IdleLeaderboard /\ IdleCsv
    /\ atStart = Snapshot
SpecGen == GenInit /\ [][NextGen]_vars

\* One invocation of the unified generator.
UnifiedInit ==
    IdleImport /\ InitGen /\ IdleFilter /\ IdleRuns /\ IdleInsert
    /\ IdleLeaderboard /\ IdleCsv
    /\ atStart = Snapshot
SpecUnified == UnifiedInit /\ [][NextUnified]_vars

\* The TWAP filter.
FilterInit ==
    IdleImport /\ IdleGen /\ InitFilter /\ IdleRuns /\ IdleInsert
    /\ IdleLeaderboard /\ IdleCsv
    /\ atStart = Snapshot
SpecFilter == FilterInit /\ [][NextFilter]_vars

\* Two processes running the bulk import script against one database.
RunsInit ==
    /\ InitRuns /\ IdleGen /\ IdleFilter /\ IdleInsert /\ IdleLeaderboard
    /\ IdleCsv /\ atStart = Snapshot
SpecRuns == RunsInit /\ [][NextRuns]_vars

\* One insertion through the Supabase client.
InsertInit ==
    /\ InitInsert /\ IdleGen /\ IdleFilter /\ IdleRuns /\ IdleLeaderboard
    /\ IdleCsv /\ atStart = Snapshot
SpecInsert == InsertInit /\ [][NextInsert]_vars

\* The rows the generators write for one input, and their decoding.
CsvInit ==
    /\ IdleImport /\ IdleGen /\ IdleFilter /\ IdleRuns /\ IdleInsert
    /\ IdleLeaderboard /\ InitCsv
    /\ atStart = Snapshot
SpecCsv == CsvInit /\ [][NextCsv]_vars

\* The leaderboard scripts, run one after the other as trades arrive.
LeaderboardInit ==
    /\ IdleImport /\ IdleGen /\ IdleFilter /\ IdleRuns /\ IdleInsert
    /\ InitLeaderboard
    /\ IdleCsv /\ atStart = Snapshot
SpecLeaderboard == LeaderboardInit /\ [][NextLeaderboard]_vars

-----------------------------------------------------------------------------
(* Properties of the bulk import script (SpecImport).                      *)

\* The run got past the conflict check of VERIFY.
PassedVerify == pc = "begin" \/ (pc = "exited" /\ abortedAt = "staged")

\* min(staging id) <= max(production id), as numbers.
IdRangesOverlap ==
    /\ StagingIds # {}
    /\ prodTrades # {}
    /\ MinOf(StagingIds) <= MaxOf(prodTrades)

\* C1: whenever the smallest staged trade id is less than or equal to the
\* largest production trade id, the run does not get past VERIFY: it
\* aborts there with a non-zero exit code, before the MIGRATE transaction
\* begins, and production is as it was when the run started.
C1_VerifyRejectsOverlap ==
    /\ PassedVerify => ~IdRangesOverlap
    /\ (pc = "exited" /\ abortedAt = "verify") =>
          /\ exitCode # 0
          /\ prodTrades = atStart.prodTrades
          /\ prodParts = atStart.prodParts

\* What STAGE_LOAD of the current run appends to the staging tables.
LoadedTrades ==
    SetToBag(UNION {csvFiles[csvPairs[i]].trades : i \in DOMAIN csvPairs})
LoadedParticipants ==
    SetToBag(UNION {csvFiles[csvPairs[i]].participants : i \in DOMAIN csvPairs})

\* Production as other sessions see it holds none, or all, of the batch.
NoneOfBatch ==
    /\ prodTrades = atStart.prodTrades
    /\ prodParts = atStart.prodParts
AllOfBatch ==
    /\ prodTrades = atStart.prodTrades \cup StagingIds
    /\ prodParts = atStart.prodParts (+) stagingParts

\* C2: MIGRATE is one transaction.  Until the staging tables are truncated
\* at the end of the run, committed production holds none or all of the
\* staged batch, trades and participants together; and after a failure
\* inside the transaction production is as before MIGRATE, the staging
\* tables still hold what STAGE_LOAD left in them and the id sequence has
\* not moved.
C2_MigrateAtomic ==
    /\ (pc = "exited" /\ abortedAt = "none") \/ NoneOfBatch \/ AllOfBatch
    /\ (pc = "exited" /\ abortedAt = "migrate") =>
          /\ NoneOfBatch
          /\ stagingTrades = atStart.stagingTrades (+) LoadedTrades
          /\ stagingParts = atStart.stagingParts (+) LoadedParticipants
          /\ seq = atStart.seq

\* A MIGRATE that failed with rows staged.
C2_Witness ==
    /\ pc = "exited"
    /\ abortedAt = "migrate"
    /\ stagingTrades # EmptyBag
    /\ stagingParts # EmptyBag

\* C6: a --staging-only run that started on empty staging tables failed
\* while loading day d; after the re-run with --start-date=d the staging
\* tables hold every row of every CSV partition exactly once.
C6_ResumeLoadsEachRowOnce ==
    ( /\ pc = "exited" /\ abortedAt = "staged"
      /\ stagingOnly
      /\ prev.stagingOnly
      /\ prev.stagingWasEmpty
      /\ prev.startDate <= MinOf(Days)
      /\ prev.abortedAt = "stage_load"
      /\ startDate = prev.failedDay )
    => /\ stagingTrades = SetToBag(AllCsvTrades)
       /\ stagingParts = SetToBag(AllCsvParticipants)

\* C9: a run in full mode (neither --staging-only nor --migrate-only) that
\* aborts at VERIFY with an id conflict leaves the staging tables and the
\* tracking file as they were when the run started.
C9_ConflictLeavesStaging ==
    (pc = "exited" /\ abortedAt = "verify" /\ ~stagingOnly /\ ~migrateOnly)
    => /\ stagingTrades = atStart.stagingTrades
       /\ stagingParts = atStart.stagingParts
       /\ trackingFile = atStart.trackingFile

\* The run is past ADVANCE_SEQUENCE.
PastAdvance == pc = "cleanup" \/ (pc = "exited" /\ abortedAt = "none")

\* C10: once a run is past ADVANCE_SEQUENCE, without --skip-sequence the
\* sequence equals the largest production trade id, so that nextval (the
\* sequence value plus 1) exceeds every production id; with --skip-sequence
\* the sequence is as it was when the run started.
C10_SequenceAdvanced ==
    PastAdvance =>
       IF skipSequence THEN seq = atStart.seq
       ELSE /\ prodTrades # {}
            /\ seq = MaxOf(prodTrades)
            /\ \A id \in prodTrades : seq + 1 > id

\* A run that migrated staged rows and moved the sequence.
C10_Witness ==
    /\ pc = "cleanup"
    /\ ~skipSequence
    /\ StagingIds # {}
    /\ seq > atStart.seq

-----------------------------------------------------------------------------
(* Properties of the generators (SpecGen).                                 *)

StrictlyIncreasing(s) == \A i, j \in DOMAIN s : i < j => s[i] < s[j]

\* Trade ids written by the previous run, and by the current one.
PrevRunIds == {emitted[i] : i \in 1..ghist.runStart}
RunIds == {emitted[i] : i \in (ghist.runStart + 1)..Len(emitted)}

\* C3: when the runs so far used no --start-id and each exited with code
\* 0, the ids written, in emission order over all the runs, are strictly
\* increasing (hence pairwise different).
C3_IdsStrictlyIncreasing ==
    (gpc = "exited" /\ gexit = 0 /\ ghist.clean) => StrictlyIncreasing(emitted)

\* C4: the previous run wrote trade rows and ended with a non-zero exit
\* code (killed, or errors counted) without writing the tracking file; the
\* current run, started without --start-id, writes none of its ids.
C4_NoReuseAfterStaleFile ==
    ( /\ gruns = MaxGenRuns
      /\ PrevRunIds # {}
      /\ ghist.prevExit = 1
      /\ ~ghist.prevAdvanced
      /\ ~startIdGiven )
    => RunIds \cap PrevRunIds = {}

\* The state in which a run saves the tracking file.
SavedAtEnd ==
    /\ gpc = "exited"
    /\ gexit = 0
    /\ dayNo > NDays
    /\ overallStats.errors = 0
    /\ overallStats.tradesWritten > 0
    /\ trackingFile = TrackingText(nextTradeId - 1)

\* C5: a run writes the tracking file at most once; when it has written
\* it, every day was processed, no error was counted, at least one trade was
\* written and the file holds the last id allocated (the next id minus 1);
\* otherwise the file's content is the one the run found.
C5_TrackingWrittenOnceAtEnd ==
    /\ ghist.trackWrites <= 1
    /\ ghist.trackWrites = 1 => SavedAtEnd
    /\ ghist.trackWrites = 0 => trackingFile = ghist.trackAtStart

\* A run that saved a new last id.
C5_Witness ==
    /\ ghist.trackWrites = 1
    /\ trackingFile # ghist.trackAtStart
    /\ Len(emitted) > 1

\* C8: between two day partitions (the day's streams are closed), the
\* trade_id values of the day's participants CSV are exactly the id values
\* of its trades CSV.
C8_ReferentialClosure ==
    (gpc = "loop" /\ csvOut.trades.exists) =>
       {r.trade_id : r \in Range(csvOut.participants.rows)}
          = Range(csvOut.trades.rows)

-----------------------------------------------------------------------------
(* Property of the TWAP filter (SpecFilter).                               *)

\* C7: on a trade whose participants' twap ids are each an integer, null
\* or absent, every path emits the trade exactly when some participant has
\* an integer twap id.
C7_FilterIffIntegerTwap ==
    fresult # "pending" =>
       (fresult = "emitted" <=> \E i \in DOMAIN frecord : frecord[i] = "int")

-----------------------------------------------------------------------------
(* Further properties of the bulk import script (SpecImport).              *)

\* The positions of MIGRATE, ADVANCE_SEQUENCE and CLEANUP.
MigratePhase == pc \in {"begin", "insert_trades", "insert_participants",
                        "commit", "advance", "cleanup"}

\* C11: a run with --staging-only never enters MIGRATE or a later phase;
\* production and the id sequence stay as they were when the run started
\* and no row the staging tables held then is removed.
C11_StagingOnlyFrame ==
    (runs > 0 /\ stagingOnly) =>
       /\ ~MigratePhase
       /\ prodTrades = atStart.prodTrades
       /\ prodParts = atStart.prodParts
       /\ seq = atStart.seq
       /\ atStart.stagingTrades \sqsubseteq stagingTrades
       /\ atStart.stagingParts \sqsubseteq stagingParts

\* A --staging-only run that passed VERIFY with rows staged, on a database
\* whose production is not empty.
C11_Witness ==
    /\ pc = "exited" /\ abortedAt = "staged" /\ exitCode = 0
    /\ stagingOnly
    /\ stagingTrades # EmptyBag
    /\ prodTrades # {}

\* Trades the STAGE_LOAD loop has copied once the first n partitions of
\* csvPairs are loaded.
LoadedUpTo(n) ==
    SetToBag(UNION {csvFiles[csvPairs[i]].trades : i \in 1..n})

\* C12: in a run with --start-date=D that loads CSVs, the partitions to
\* load are exactly the discovered ones with day key >= D, each once, in
\* ascending order of day key; the loop copies them in that order and
\* nothing else; the tracking file is as it was when the run started.
C12_StartDateSelectsPartitions ==
    (runs > 0 /\ startDate # 0 /\ ~migrateOnly) =>
       /\ Range(csvPairs) = {k \in Partitions : DayName(k) >= startDate}
       /\ Len(csvPairs) = Cardinality(Range(csvPairs))
       /\ \A i, j \in DOMAIN csvPairs :
             i < j => DayName(csvPairs[i]) <= DayName(csvPairs[j])
       /\ pc = "copy_trades" =>
             stagingTrades = atStart.stagingTrades (+) LoadedUpTo(dayIdx - 1)
       /\ pc = "copy_participants" =>
             stagingTrades = atStart.stagingTrades (+) LoadedUpTo(dayIdx)
       /\ pc = "verify" =>
             stagingTrades = atStart.stagingTrades (+) LoadedUpTo(Len(csvPairs))
       /\ trackingFile = atStart.trackingFile

\* A run with --start-date equal to the last day has loaded that day only,
\* the partition found first being the later one.
C12_Witness ==
    /\ pc = "verify"
    /\ ~migrateOnly
    /\ startDate = MaxOf(Days)
    /\ DayName(findCsvPairs[1]) > DayName(findCsvPairs[2])
    /\ csvPairs = <<findCsvPairs[1]>>
    /\ stagingTrades = SetToBag(csvFiles[findCsvPairs[1]].trades)


-----------------------------------------------------------------------------
(* Properties of import runs side by side (SpecRuns).                      *)

\* C13: no import run is in its MIGRATE phase while another import run
\* against the same database is in its STAGE_LOAD or MIGRATE phase.
C13_OneImportRunAtATime ==
    \A p, q \in Procs :
        (p # q /\ procs[p].phase = "migrate")
            => procs[q].phase \notin {"stage_load", "migrate"}


-----------------------------------------------------------------------------
(* Properties of direct insertion (SpecInsert).                            *)

\* C14: when the insertion of the participants fails after the insertion
\* of the trade(s) succeeded, by a returned error or by a thrown exception,
\* the inserted trades are deleted: once the call is over, production holds
\* no trade of it that has no participant.
C14_FailedParticipantsDeleteTrade ==
    ins.pc = "done" =>
        \A id \in ins.ids \cap prodTrades :
            \E r \in BagToSet(prodParts) : r.trade_id = id


\* C19: an ingestion script exits with code 0 if and only if it completed
\* with an error count of 0; a failed insert makes the exit code non-zero.
C19_ExitCodeReflectsErrors ==
    ins.pc = "exited" => (ins.exit = 0 <=> ins.errors = 0)

\* C23: in dry-run mode the daily sync and the direct import script issue
\* no insert and no delete against the database, and each writes a local
\* preview of what it would have written.
C23_DryRunWritesPreviewOnly ==
    (ins.dryRun /\ ins.pc \in {"done", "exited"}) =>
        /\ prodTrades = atStart.prodTrades
        /\ prodParts = atStart.prodParts
        /\ seq = atStart.seq
        /\ ins.preview

\* C34: if production already holds at least one trade whose time lies
\* within yesterday (UTC), a daily sync that is no dry run inserts no rows;
\* hence a second sync of the same day inserts nothing more.
C34_SyncSkipsSyncedDay ==
    (ins.path = "sync" /\ ~ins.dryRun /\ ins.existing) =>
        /\ prodTrades = atStart.prodTrades
        /\ prodParts = atStart.prodParts

-----------------------------------------------------------------------------
(* Further properties of the generators (SpecGen).                         *)

\* The run has initialised its counter and has not read a line yet.
JustStarted == gruns > 0 /\ gpc = "loop" /\ dayNo = 1

\* The run was refused at its start.
RefusedAtStart ==
    /\ gpc = "exited" /\ gexit = 1
    /\ csvOut = (IF ghist.hadCsv THEN LeftPair ELSE NoPair)
    /\ Len(emitted) = ghist.runStart
    /\ trackingFile = ghist.trackAtStart

C16_SkippedTradeTakesNoId ==
    [][(gpc = "lines" /\ gpc' = "lines") =>
          /\ nextTradeId' >= nextTradeId
          /\ nextTradeId' - nextTradeId <=
                (dayStats'.tradesWritten - dayStats.tradesWritten)
                + (dayStats'.errors - dayStats.errors)
          /\ (/\ dayStats'.tradesSkipped > dayStats.tradesSkipped
              /\ dayStats'.tradesWritten = dayStats.tradesWritten
              /\ dayStats'.errors = dayStats.errors)
                => nextTradeId' = nextTradeId]_vars

\* A first day on which a trade was rejected and the counter still has the
\* default first id.
C16_Witness ==
    /\ gpc = "lines" /\ dayNo = 1
    /\ ~startIdGiven /\ ~ghist.trackAtStart.exists
    /\ dayStats.tradesSkipped > 0
    /\ dayStats.tradesWritten = 0
    /\ nextTradeId = 1

\* The day before dayNo went through to its summary.
DayProcessed == gpc = "loop" /\ dayNo > 1 /\ ghist.dayFinished

C18_MalformedRecordsCounted ==
    (gpc = "lines" /\ ghist.dayMalformed > 0) =>
        /\ dayStats.tradesSkipped + dayStats.errors >= ghist.dayMalformed
        /\ ghist.dayMalformed = dayStats.linesRead =>
              /\ csvOut.trades.rows = <<>>
              /\ csvOut.participants.rows = <<>>


-----------------------------------------------------------------------------
(* Properties of the leaderboard aggregator (SpecLeaderboard).             *)

\* C20: after a successful run of any of the three leaderboard scripts the
\* ranks in leaderboard_stats are exactly 1..N without gap or repeat,
\* total_volume does not increase as rank increases, and no row has a
\* total_volume of 0.
C20_LeaderboardWellRanked ==
    (lb.last # "none" /\ lb.ok) =>
        /\ \A r1, r2 \in lb.table : r1.rank = r2.rank => r1 = r2
        /\ {r.rank : r \in lb.table} = 1..Cardinality(lb.table)
        /\ \A r1, r2 \in lb.table :
              r1.rank < r2.rank => r1.total_volume >= r2.total_volume
        /\ \A r \in lb.table : r.total_volume # 0

\* The volumes of the users are pairwise distinct.
DistinctVolumes ==
    \A u, w \in Users : u # w => lb.volumes[u] # lb.volumes[w]

\* The table was computed by a successful run from the present trades.
TableIsCurrent == lb.last # "none" /\ lb.ok /\ ~lb.fresh

\* C21: on the same trades and participants, with pairwise distinct total
\* volumes, each of the three strategies leaves the same rows in
\* leaderboard_stats: the ranking of all N users of positive TWAP volume.
C21_StrategiesAgree ==
    (TableIsCurrent /\ DistinctVolumes) =>
        /\ Cardinality(lb.table) =
              Cardinality({u \in Users : lb.volumes[u] > 0})
        /\ \A ranked \in RankedUsers(lb.volumes) :
              lb.table = LeaderboardRows(ranked, lb.volumes, lb.writes)

\* C22: a delta run leaves leaderboard_stats, rows and last_updated values,
\* as it was when the table is empty (the run then fails, asking for the
\* initial setup) and when no trade is newer than the last update.
C22_DeltaLeavesTable ==
    [][(/\ lb'.last = "delta"
        /\ lb'.volumes = lb.volumes
        /\ lb.table = {} \/ ~lb.newer)
          => /\ lb'.table = lb.table
             /\ lb.table = {} => ~lb'.ok]_vars

\* A delta run found a filled table without newer trades and left it.
C22_Witness ==
    /\ lb.last = "delta" /\ lb.ok /\ ~lb.wrote
    /\ lb.table # {}
    /\ ~lb.newer


\* The rows of a table without their last_updated.
WithoutLastUpdated(table) ==
    {[user_address |-> r.user_address, total_volume |-> r.total_volume,
      rank |-> r.rank] : r \in table}

C36_ReplaceAllOrNothing ==
    [][(/\ lb'.volumes = lb.volumes
        /\ lb'.last \in {"delta", "batched", "matview"}
        /\ ~lb'.ok)
          => lb'.table = lb.table]_vars

\* C37: in the materialized-view strategy the view the first run created
\* meets the precondition of the refresh every later run issues (a
\* concurrent refresh needs a unique index on the view), so the refresh of
\* every later run succeeds and the leaderboard is then replaced.
C37_LaterRefreshSucceeds ==
    lb.refresh \notin {"none", "created"} =>
        /\ lb.view.uniqueIndex
        /\ lb.refresh = "refreshed"

-----------------------------------------------------------------------------
(* Order of the phases and repeated runs of the bulk import script         *)
(* (SpecImport).                                                           *)

\* The phase a position of main() belongs to: 1 STAGE_LOAD, 2 VERIFY,
\* 3 MIGRATE (up to its COMMIT), 4 ADVANCE_SEQUENCE, 5 CLEANUP.
PhaseOf(p) ==
    CASE p \in {"copy_trades", "copy_participants"} -> 1
      [] p = "verify" -> 2
      [] p \in {"begin", "insert_trades", "insert_participants", "commit"} -> 3
      [] p = "advance" -> 4
      [] p = "cleanup" -> 5
      [] OTHER -> 0

\* A step of a run goes on in its phase or to the next one; VERIFY follows
\* the last day of STAGE_LOAD (or, with --migrate-only, the connection),
\* ADVANCE_SEQUENCE the COMMIT, CLEANUP the ADVANCE_SEQUENCE.
InPhaseOrder ==
    (PhaseOf(pc) > 0 /\ PhaseOf(pc') > 0) =>
        /\ PhaseOf(pc') \in {PhaseOf(pc), PhaseOf(pc) + 1}
        /\ PhaseOf(pc') = 4 => pc = "commit"
        /\ PhaseOf(pc') = 5 => pc = "advance"
        /\ (PhaseOf(pc') = 2 /\ ~migrateOnly) => pc = "copy_participants"

\* Production holds what the run found there and every staged row: the
\* transaction of MIGRATE has committed.
MigrateCommitted ==
    /\ ~inTx
    /\ prodTrades = atStart.prodTrades \cup StagingIds
    /\ prodParts = atStart.prodParts (+) stagingParts

\* Rows leave the staging tables in this step.
StagedRowsRemoved ==
    \/ ~(stagingTrades \sqsubseteq stagingTrades')
    \/ ~(stagingParts \sqsubseteq stagingParts')

\* The run stops in this step with a failure of the given phases.
AbortsIn(phases) == pc # "exited" /\ pc' = "exited" /\ abortedAt' \in phases

\* C29: in every import run the phases come in the order STAGE_LOAD, VERIFY,
\* MIGRATE commit, ADVANCE_SEQUENCE, CLEANUP; the staging tables are
\* truncated only after the MIGRATE transaction of that run has committed;
\* a run that aborts during STAGE_LOAD, VERIFY or MIGRATE leaves every
\* staged row in place.
C29_PhasesInOrder ==
    [][/\ InPhaseOrder
       /\ StagedRowsRemoved => (pc = "cleanup" /\ MigrateCommitted)
       /\ AbortsIn({"stage_load", "verify", "migrate"}) =>
             /\ stagingTrades' = stagingTrades
             /\ stagingParts' = stagingParts
             /\ atStart.stagingTrades \sqsubseteq stagingTrades
             /\ atStart.stagingParts \sqsubseteq stagingParts]_vars

\* A full run loaded, migrated and truncated.
C29_Witness ==
    /\ pc = "exited" /\ exitCode = 0 /\ abortedAt = "none"
    /\ ~migrateOnly /\ ~stagingOnly
    /\ stagingTrades = EmptyBag /\ stagingParts = EmptyBag
    /\ prodTrades # atStart.prodTrades
    /\ prodParts # atStart.prodParts

\* C30: whatever the sequence of full, --staging-only and --migrate-only
\* runs, and wherever a run is killed (between the COMMIT of MIGRATE and the
\* TRUNCATE too), each trade id is in production at most once and each
\* staged participant row is copied into production at most once.  (trades
\* has a primary key: a second copy of an id can only be in the open
\* transaction.)
C30_MigratedAtMostOnce ==
    /\ txTrades \cap prodTrades = {}
    /\ \A r \in BagToSet(prodParts (+) txParts) :
          CopiesIn(r, prodParts (+) txParts) = 1

\* A run was killed between COMMIT and TRUNCATE, and the next run, finding
\* the migrated rows still staged, has ended.
C30_Witness ==
    /\ runs = 2 /\ pc = "exited"
    /\ prev.abortedAt = "killed"
    /\ stagingTrades # EmptyBag /\ stagingParts # EmptyBag
    /\ StagingIds \subseteq atStart.prodTrades
    /\ \A r \in BagToSet(atStart.stagingParts) : BagIn(r, atStart.prodParts)

\* Participant rows the STAGE_LOAD loop has copied once the first n
\* partitions of csvPairs are loaded.
ParticipantsLoadedUpTo(n) ==
    SetToBag(UNION {csvFiles[csvPairs[i]].participants : i \in 1..n})

\* The run stopped because importDay threw.
StageLoadFailed == pc = "exited" /\ abortedAt = "stage_load"

\* C31: if loading day d into staging fails, the run loads no later
\* partition, executes neither VERIFY nor MIGRATE, leaves production (and
\* the id sequence) unchanged, exits non-zero and reports the day key d;
\* the partitions loaded before d remain in staging.
C31_FailedDayStopsRun ==
    StageLoadFailed =>
        /\ exitCode # 0
        /\ dayIdx \in DOMAIN csvPairs
        /\ failedDay = DayName(csvPairs[dayIdx])
        /\ statsErrors = 1
        /\ stagingParts =
              atStart.stagingParts (+) ParticipantsLoadedUpTo(dayIdx - 1)
        /\ stagingTrades \in
              {atStart.stagingTrades (+) LoadedUpTo(dayIdx - 1),
               atStart.stagingTrades (+) LoadedUpTo(dayIdx)}
        /\ prodTrades = atStart.prodTrades
        /\ prodParts = atStart.prodParts
        /\ seq = atStart.seq
        /\ ~inTx /\ txTrades = {} /\ txParts = EmptyBag

\* The second day of a run failed after the first was loaded.
C31_Witness ==
    /\ StageLoadFailed
    /\ dayIdx = 2 /\ Len(csvPairs) = 2
    /\ failedDay = DayName(csvPairs[2])
    /\ LoadedUpTo(1) \sqsubseteq stagingTrades
    /\ ParticipantsLoadedUpTo(1) \sqsubseteq stagingParts
    /\ stagingParts # EmptyBag

\* The first id of the run under way, and the trade rows it has written.
FirstIdOfRun ==
    FirstId([given |-> startIdGiven, n |-> ghist.startId],
            ghist.trackAtStart, ~ghist.readFailed)
RowsOfRun == Len(emitted) - ghist.runStart

\* C33: in every generator run each id taken from the counter is the id of
\* exactly one trades row: at the end of the run, last allocated id - first
\* id + 1 equals the number of trade rows written, even when records raise
\* errors.
C33_EveryIdHasItsRow ==
    (gruns > 0 /\ gpc = "exited" /\ ~RefusedAtStart) =>
        (nextTradeId - 1) - FirstIdOfRun + 1 = RowsOfRun

-----------------------------------------------------------------------------
(* Properties of the unified generator (SpecUnified).                      *)

\* The ids the first child wrote, and those the second child has written.
IdsOfFirstChild == {emitted[i] : i \in 1..ghist.runStart}
IdsOfSecondChild == {emitted[i] : i \in (ghist.runStart + 1)..Len(emitted)}

\* C32: in the unified generator the Variant B run is started only after
\* the Variant A run has exited with code 0, and every id the Variant B run
\* assigns is greater than every id the Variant A run of the same invocation
\* assigned.
C32_SecondChildContinuesIds ==
    gruns = 2 =>
        /\ variant = "B" /\ ghist.prevExit = 0
        /\ \A a \in IdsOfFirstChild, b \in IdsOfSecondChild : b > a

-----------------------------------------------------------------------------
(* Properties of the CSV rows of the generators (SpecCsv).                 *)

\* C26: for every field value v, null or a string over an alphabet with
\* comma, double quote, newline, carriage return and backslash, decoding
\* escapeCsvField(v) by the rules of COPY ... (FORMAT csv, NULL '\N') gives
\* v back.
C26_EscapeRoundTrip ==
    (csv.op = "field" /\ csv.done /\ csv.value # Undefined) =>
        csv.decoded = csv.value

\* The record of Variant A passed the filter and its rows are written.
WrittenA == csv.op = "recordA" /\ csv.done /\ csv.out.trades # <<>>

\* C24: for every Variant A record that passes the filter, the participant
\* built from side_info[0] is written with side B and the one built from
\* side_info[1] with side A, whatever the record's own side and its other
\* fields.
C24_SideByPosition ==
    WrittenA =>
        LET si == csv.trade.side_info
            rows == csv.out.participants
        IN  /\ Len(rows) = Len(si)
            /\ rows[1].user_address = escapeCsvField(si[1].user)
            /\ rows[1].side = <<"B">>
            /\ Len(si) >= 2 =>
                  /\ rows[2].user_address = escapeCsvField(si[2].user)
                  /\ rows[2].side = <<"A">>

C24_Witness ==
    /\ WrittenA
    /\ Len(csv.trade.side_info) = 2
    /\ csv.trade.side = "A"
    /\ csv.trade.side_info[1].user = UserB
    /\ csv.trade.side_info[2].user = UserA
    /\ csv.out.participants[1].side = <<"B">>
    /\ csv.out.participants[2].side = <<"A">>

\* The block of Variant B has been processed.
WrittenB == csv.op = "blockB" /\ csv.done

\* The events of the block with trade id tid, in input order.
EventsOfTid(tid) == SelectSeq(csv.events, LAMBDA e : e.tid = tid)

\* The distinct tids of the block of which some event carries a TWAP id.
TwapTids ==
    {tid \in {csv.events[i].tid : i \in DOMAIN csv.events} \ {0} :
        \E i \in DOMAIN csv.events :
            csv.events[i].tid = tid /\ Present(csv.events[i].twapId)}

\* The participant rows written under one trade id, in output order.
RowsOfTrade(id) == SelectSeq(csv.out.participants, LAMBDA r : r.trade_id = id)

\* The rows are those of the events, one for one and in the same order.
RowsMatchEvents(rows, events) ==
    /\ Len(rows) = Len(events)
    /\ \A i \in DOMAIN rows :
          /\ rows[i].user_address = escapeCsvField(events[i].user)
          /\ rows[i].twap_id = escapeCsvField(events[i].twapId)
          /\ rows[i].side = <<events[i].side>>

KeepsEmptyApart(value, text) ==
    /\ value = Str(<<>>) => text = <<>>
    /\ value \in {Null, Undefined} => text = <<"\\", "N">>

\* C27: for each optional field the generators write (trade_dir_override,
\* the strategy id twap_id, the client order id cloid), an empty string in
\* the source is written as an empty field and a null or absent value as
\* \N, so that the two encodings differ.
C27_EmptyStringIsNotNull ==
    /\ WrittenA =>
          /\ KeepsEmptyApart(csv.trade.trade_dir_override,
                             csv.out.trades[1].trade_dir_override)
          /\ \A i \in DOMAIN csv.trade.side_info :
                /\ KeepsEmptyApart(csv.trade.side_info[i].twap_id,
                                   csv.out.participants[i].twap_id)
                /\ KeepsEmptyApart(csv.trade.side_info[i].cloid,
                                   csv.out.participants[i].cloid)
    /\ (WrittenB /\ Len(csv.events) = 1 /\ csv.out.trades # <<>>) =>
          /\ KeepsEmptyApart(csv.events[1].dir,
                             csv.out.trades[1].trade_dir_override)
          /\ KeepsEmptyApart(csv.events[1].twapId,
                             csv.out.participants[1].twap_id)
          /\ KeepsEmptyApart(csv.events[1].cloid,
                             csv.out.participants[1].cloid)

\* C28: every trade id in the output of the generators has exactly 2
\* participant rows, at least one of them with a twap_id that is not null.
C28_TwoParticipantsPerTrade ==
    (csv.done /\ csv.op \in {"recordA", "blockB"}) =>
        \A k \in DOMAIN csv.out.trades :
            LET rows == RowsOfTrade(csv.out.trades[k].id)
            IN  /\ Len(rows) = 2
                /\ \E i \in DOMAIN rows : rows[i].twap_id # <<"\\", "N">>
=============================================================================
